---- MODULE Spec2Model ----
(***************************************************************************)
(* Cartridge bank-switching mappers of Gopher2600: the parkerBros (E0),    *)
(* dpcPlus (DPC+) and mnetwork (E7) mappers.                               *)
(*                                                                         *)
(* One cartridge is attached at construction; its mapper is then driven    *)
(* by Read / Write / Patch / Initialise / Step calls. Every mapper call is *)
(* an operator from the mapper state and the call's arguments to a record  *)
(*   [cart |-> the mapper state after the call,                            *)
(*    data |-> the byte returned, err |-> the error returned],             *)
(* and the action of the call installs cart and records the call and its   *)
(* return values in `last'.                                                *)
(*                                                                         *)
(* Byte arrays (ROM banks, RAM, display data) are kept as the image they   *)
(* were loaded from plus the finite map of the cells since overwritten     *)
(* with a value other than the loaded one.                                 *)
(*                                                                         *)
(* Beside the mappers: the prefs Disk, the debugger's pushed rewind and     *)
(* goto functions, the feature requests of sdlimgui, the television's      *)
(* resizer, the regression commands and the DPC+ State snapshot, each with *)
(* a specification of its own over the same variables.                     *)
(***************************************************************************)
EXTENDS Integers, Sequences, FiniteSets, TLC

VARIABLES
    attached,    \* which mapper the cartridge was loaded with
    parkerBros,  \* the parkerBros struct: banks, segment
    dpcPlus,     \* the dpcPlus struct: banks, bank, registers, static, lda, beats
    mnetwork,    \* the mnetwork struct: lowerSegment, upperSegment, ramLower, ramUpper
    snapshot,    \* what the last saveState returned, and the mapper it was taken of
    last,        \* the most recent call, its arguments and what it returned
    ops,         \* number of calls made so far
    steps,       \* number of Step calls made so far
    file,        \* the length in bytes of the cartridge file
    ejected,     \* the ejected struct: method
    dsk,         \* the prefs Disk struct: entries, each key's live value
    prefsFile,   \* the lines of the file at dsk.path, or NoFile
    rewinding,   \* the number of values held by the channel dbg.rewinding
    events,      \* the functions pushed with PushRawEvent and not yet taken
    running,     \* the pushed function the debugger loop is running
    pushing,     \* the GUI thread's place in PushRewind
    scr,         \* the emulation state last requested of the GUI with ReqState
    img,         \* the SdlImgui struct: its feature channels, and the calls made of it
    rsz,         \* the television's resizer struct: top, bottom
    regression,  \* the regression command being run and its database session
    dpcState     \* a DPC+ State, the copy Snapshot made of it, and the arrays they point to

vars == <<attached, parkerBros, dpcPlus, mnetwork, snapshot, last, ops, steps,
          file, ejected, dsk, prefsFile, rewinding, events, running, pushing, scr,
          img, rsz, regression, dpcState>>

rewindVars == <<rewinding, events, running, pushing, scr>>

\* the variables of the GUI service, the television and the regression command
apart == <<img, rsz, regression, dpcState>>

(***************************************************************************)
(* Bounds of the model.                                                    *)
(***************************************************************************)
\* calls made on the attached mapper in one behaviour
MaxOps == 2

\* activations of Read on the stack at which its evaluation is cut off
MaxDepth == 4

\* bytes written by the Write, Patch and poke calls of the model
Bytes == {66}

(***************************************************************************)
(* uint8 / uint16 / uint32 arithmetic.                                     *)
(***************************************************************************)
\* x & (p - 1), p a power of two
Mask(x, p) == x % p
\* the bit of x of weight p, p a power of two
Bit(x, p) == (x \div p) % 2
\* x & 0x3dd: the low ten bits without the bits of weight 2 and 32
Mask3dd(x) == Mask(x, 1024) - 2 * Bit(x, 2) - 32 * Bit(x, 32)

RECURSIVE BitXor(_, _)
BitXor(a, b) ==
    IF a = 0 THEN b
    ELSE IF b = 0 THEN a
    ELSE ((a + b) % 2) + 2 * BitXor(a \div 2, b \div 2)

U8(x) == x % 256

\* a uint32 is kept as its two 16-bit halves <<high, low>>
W32(hi, lo) == <<hi, lo>>
W32zero == <<0, 0>>
\* uint8(w >> 8k)
W32byte(w, k) ==
    IF k = 0 THEN w[2] % 256
    ELSE IF k = 1 THEN w[2] \div 256
    ELSE IF k = 2 THEN w[1] % 256
    ELSE w[1] \div 256
\* w with byte k replaced: w &= ^(0xff << 8k); w |= uint32(data) << 8k
W32setByte(w, k, data) ==
    IF k = 0 THEN <<w[1], (w[2] \div 256) * 256 + data>>
    ELSE IF k = 1 THEN <<w[1], data * 256 + (w[2] % 256)>>
    ELSE IF k = 2 THEN <<(w[1] \div 256) * 256 + data, w[2]>>
    ELSE <<data * 256 + (w[1] % 256), w[2]>>
\* a + b, wrapping at 2^32
W32add(a, b) ==
    <<(a[1] + b[1] + (a[2] + b[2]) \div 65536) % 65536, (a[2] + b[2]) % 65536>>
W32xor(a, b) == <<BitXor(a[1], b[1]), BitXor(a[2], b[2])>>
\* (w >> 11) | (w << 21)
W32ror11(w) == <<(w[2] % 2048) * 32 + w[1] \div 2048, (w[1] % 2048) * 32 + w[2] \div 2048>>
\* (w << 11) | (w >> 21)
W32rol11(w) == <<(w[1] % 32) * 2048 + w[2] \div 32, (w[2] % 32) * 2048 + w[1] \div 32>>

(***************************************************************************)
(* Byte arrays: the loaded image plus the overwritten cells.               *)
(***************************************************************************)
\* the byte at cell k of an array whose loaded value at k is orig
Load(mem, k, orig) == IF k \in DOMAIN mem THEN mem[k] ELSE orig

\* the array after mem[k] = v
Store(mem, k, v, orig) ==
    IF v = orig
    THEN [x \in (DOMAIN mem) \ {k} |-> mem[x]]
    ELSE [x \in (DOMAIN mem) \cup {k} |-> IF x = k THEN v ELSE mem[x]]

NoCells == [x \in {} |-> 0]

\* what a call returns, with the mapper state it leaves
Ret(cart, data, err) == [cart |-> cart, data |-> data, err |-> err]

(***************************************************************************)
(* parkerBros (E0): 8 banks of 1024 bytes, 4 segments.                     *)
(***************************************************************************)
PBbankSize == 1024
PBNumBanks == 8

\* the cartridge file the mapper is loaded from: 8192 bytes, bank k is
\* data[1024k .. 1024k+1023]
PBImage(i) == (7 * i + 31 * (i \div 256) + 13) % 256

PBbank(cart, k, o) == Load(cart.banks, <<k, o>>, PBImage(k * PBbankSize + o))

PBInitialise(cart) ==
    [cart EXCEPT !.segment = [s \in 0..3 |-> PBNumBanks - 4 + s]]

newParkerBros == PBInitialise([banks |-> NoCells, segment |-> [s \in 0..3 |-> 0]])

\* the segment an address falls in (the if-chain of Read, Write and GetBank)
PBsegmentOf(addr) ==
    IF addr <= 1023 THEN 0
    ELSE IF addr <= 2047 THEN 1
    ELSE IF addr <= 3071 THEN 2
    ELSE 3

\* mutant: the hotspot is acted on in passive mode too
PBbankswitchAlways(cart, addr, passive) ==
    IF addr >= 4064 /\ addr <= 4087
    THEN [cart |-> [cart EXCEPT !.segment[(addr - 4064) \div 8] = (addr - 4064) % 8],
          hit |-> TRUE]
    ELSE [cart |-> cart, hit |-> FALSE]

\* mutant: the eight addresses above the hotspots switch the last segment
PBbankswitchLast(cart, addr, passive) ==
    IF addr >= 4064 /\ addr <= 4095
    THEN IF passive
         THEN [cart |-> cart, hit |-> TRUE]
         ELSE [cart |-> [cart EXCEPT !.segment[(addr - 4064) \div 8] = (addr - 4064) % 8],
               hit |-> TRUE]
    ELSE [cart |-> cart, hit |-> FALSE]

\* bankswitch on hotspot access: [cart, hit]
PBbankswitch(cart, addr, passive) ==
    IF addr >= 4064 /\ addr <= 4087
    THEN IF passive
         THEN [cart |-> cart, hit |-> TRUE]
         ELSE [cart |-> [cart EXCEPT !.segment[(addr - 4064) \div 8] = (addr - 4064) % 8],
               hit |-> TRUE]
    ELSE [cart |-> cart, hit |-> FALSE]

\* mutant: the offset is masked as Write masks it
PBReadMask(cart, addr, passive) ==
    LET data == IF addr <= 4095
                THEN PBbank(cart, cart.segment[PBsegmentOf(addr)], Mask3dd(addr))
                ELSE 0
    IN  Ret(PBbankswitch(cart, addr, passive).cart, data, "nil")

PBRead(cart, addr, passive) ==
    LET data == IF addr <= 4095
                THEN PBbank(cart, cart.segment[PBsegmentOf(addr)], Mask(addr, 1024))
                ELSE 0
    IN  Ret(PBbankswitch(cart, addr, passive).cart, data, "nil")

\* mutant: every write is stored, poke or not
PBWriteStores(cart, addr, data, passive, poke) ==
    LET k == cart.segment[PBsegmentOf(addr)]
        o == Mask3dd(addr)
        poked == IF addr <= 4095
                 THEN [cart EXCEPT !.banks =
                          Store(cart.banks, <<k, o>>, data, PBImage(k * PBbankSize + o))]
                 ELSE cart
    IN  Ret(PBbankswitch(poked, addr, passive).cart, 0, "AddressError")

PBWrite(cart, addr, data, passive, poke) ==
    LET k == cart.segment[PBsegmentOf(addr)]
        o == Mask3dd(addr)
        poked == IF poke /\ addr <= 4095
                 THEN [cart EXCEPT !.banks =
                          Store(cart.banks, <<k, o>>, data, PBImage(k * PBbankSize + o))]
                 ELSE cart
    IN  Ret(PBbankswitch(poked, addr, passive).cart, 0, "AddressError")

PBGetBank(cart, addr) ==
    [Number |-> cart.segment[PBsegmentOf(addr)], IsRAM |-> FALSE, Segment |-> PBsegmentOf(addr)]

\* mutant: the offset is taken in the banks now selected in the four segments
PBPatchSelected(cart, offset, data) ==
    IF offset >= PBbankSize * PBNumBanks
    THEN Ret(cart, 0, "PatchError")
    ELSE LET bank == cart.segment[(offset \div PBbankSize) % 4]
             o == offset % PBbankSize
         IN  Ret([cart EXCEPT !.banks = Store(cart.banks, <<bank, o>>, data,
                                              PBImage(bank * PBbankSize + o))],
                 0, "nil")

\* mutant: the offset just behind the image is accepted
PBPatchInclusive(cart, offset, data) ==
    IF offset > PBbankSize * PBNumBanks
    THEN Ret(cart, 0, "PatchError")
    ELSE LET bank == offset \div PBbankSize
             o == offset % PBbankSize
         IN  Ret([cart EXCEPT !.banks = Store(cart.banks, <<bank, o>>, data, PBImage(offset))],
                 0, "nil")

PBPatch(cart, offset, data) ==
    IF offset >= PBbankSize * PBNumBanks
    THEN Ret(cart, 0, "PatchError")
    ELSE LET bank == offset \div PBbankSize
             o == offset % PBbankSize
         IN  Ret([cart EXCEPT !.banks = Store(cart.banks, <<bank, o>>, data, PBImage(offset))],
                 0, "nil")

\* the Number and the Origins of the banks copied, the origins relative to
\* memorymap.OriginCart
PBCopyBanks(cart) ==
    [b \in 0..(PBNumBanks - 1) |->
        IF b < PBNumBanks - 1
        THEN [Number |-> b, Origins |-> {0, PBbankSize, PBbankSize * 2}]
        ELSE [Number |-> b, Origins |-> {0, PBbankSize, PBbankSize * 2, PBbankSize * 3}]]

\* the table of ReadHotspots: address 0x0fe0 + 8m + n has the symbol "BnSm",
\* kept as the bank n and the segment m it names
PBReadHotspots ==
    [a \in 4064..4087 |->
        [Symbol |-> [bank |-> (a - 4064) % 8, segment |-> (a - 4064) \div 8],
         Action |-> "HotspotBankSwitch"]]

PBWriteHotspots == PBReadHotspots

(***************************************************************************)
(* mnetwork (E7): 8 banks of 2048 bytes, two segments, 2K of RAM.          *)
(***************************************************************************)
MNnumBanks == 8
MNbankSize == 2048

MNImage(i) == (11 * i + 29 * (i \div 256) + 5) % 256

MNbank(k, o) == MNImage(k * MNbankSize + o)

MNinitialise(cart) ==
    [cart EXCEPT !.lowerSegment = MNnumBanks - 2, !.upperSegment = 0]

newMnetwork ==
    MNinitialise([lowerSegment |-> 0, upperSegment |-> 0,
                  ramLower |-> NoCells, ramUpper |-> NoCells])

\* [cart, hit]
MNbankSwitchOnAccess(cart, addr) ==
    IF addr >= 4064 /\ addr <= 4071
    THEN [cart |-> [cart EXCEPT !.lowerSegment = addr - 4064], hit |-> TRUE]
    ELSE IF addr >= 4088 /\ addr <= 4091
    THEN [cart |-> [cart EXCEPT !.upperSegment = addr - 4088], hit |-> TRUE]
    ELSE [cart |-> cart, hit |-> FALSE]

\* mutant: the whole lower segment reads the RAM once it is selected
MNreadSymmetric(cart, addr) ==
    IF addr <= 2047
    THEN IF cart.lowerSegment = 7
         THEN Ret(cart, Load(cart.ramLower, Mask(addr, 1024), 0), "nil")
         ELSE IF cart.lowerSegment >= MNnumBanks
              THEN Ret(cart, 0, "panic")
              ELSE Ret(cart, MNbank(cart.lowerSegment, Mask(addr, 2048)), "nil")
    ELSE IF addr <= 4095
    THEN IF addr >= 2304 /\ addr <= 2559
         THEN Ret(cart, Load(cart.ramUpper, <<cart.upperSegment, Mask(addr, 256)>>, 0), "nil")
         ELSE Ret(MNbankSwitchOnAccess(cart, addr).cart,
                  MNbank(MNnumBanks - 1, Mask(addr, 2048)), "nil")
    ELSE Ret(cart, 0, "UnreadableAddress")

MNread(cart, addr) ==
    IF addr <= 2047
    THEN IF cart.lowerSegment = 7 /\ addr >= 1024
         THEN Ret(cart, Load(cart.ramLower, Mask(addr, 1024), 0), "nil")
         ELSE IF cart.lowerSegment >= MNnumBanks
              THEN Ret(cart, 0, "panic")
              ELSE Ret(cart, MNbank(cart.lowerSegment, Mask(addr, 2048)), "nil")
    ELSE IF addr <= 4095
    THEN IF addr >= 2304 /\ addr <= 2559
         THEN Ret(cart, Load(cart.ramUpper, <<cart.upperSegment, Mask(addr, 256)>>, 0), "nil")
         ELSE Ret(MNbankSwitchOnAccess(cart, addr).cart,
                  MNbank(MNnumBanks - 1, Mask(addr, 2048)), "nil")
    ELSE Ret(cart, 0, "UnreadableAddress")

\* mutant: the upper RAM is written in page 0 whatever page is selected
MNwritePage0(cart, addr, data) ==
    IF addr <= 2047
    THEN IF addr <= 1023 /\ cart.lowerSegment = 7
         THEN Ret([cart EXCEPT !.ramLower = Store(cart.ramLower, Mask(addr, 1024), data, 0)],
                  0, "nil")
         ELSE Ret(cart, 0, "UnwritableAddress")
    ELSE IF addr >= 2048 /\ addr <= 2303
    THEN Ret([cart EXCEPT !.ramUpper =
                 Store(cart.ramUpper, <<0, Mask(addr, 256)>>, data, 0)],
             0, "nil")
    ELSE IF MNbankSwitchOnAccess(cart, addr).hit
    THEN Ret(MNbankSwitchOnAccess(cart, addr).cart, 0, "nil")
    ELSE Ret(cart, 0, "UnwritableAddress")

MNwrite(cart, addr, data) ==
    IF addr <= 2047
    THEN IF addr <= 1023 /\ cart.lowerSegment = 7
         THEN Ret([cart EXCEPT !.ramLower = Store(cart.ramLower, Mask(addr, 1024), data, 0)],
                  0, "nil")
         ELSE Ret(cart, 0, "UnwritableAddress")
    ELSE IF addr >= 2048 /\ addr <= 2303
    THEN Ret([cart EXCEPT !.ramUpper =
                 Store(cart.ramUpper, <<cart.upperSegment, Mask(addr, 256)>>, data, 0)],
             0, "nil")
    ELSE IF MNbankSwitchOnAccess(cart, addr).hit
    THEN Ret(MNbankSwitchOnAccess(cart, addr).cart, 0, "nil")
    ELSE Ret(cart, 0, "UnwritableAddress")

MNgetBank(cart, addr) ==
    IF addr <= 2047 THEN cart.lowerSegment ELSE MNnumBanks - 1

MNsetBank(cart, addr, bank) ==
    IF bank < 0 \/ bank > MNnumBanks
    THEN Ret(cart, 0, "CartridgeError")
    ELSE IF addr <= 2047
    THEN Ret([cart EXCEPT !.lowerSegment = bank], 0, "nil")
    ELSE IF addr <= 4095
    THEN Ret(cart, 0, "nil")
    ELSE Ret(cart, 0, "CartridgeError")

\* the state handed to the rewind system, and taken back from it
MNsaveState(cart) == cart.lowerSegment

MNrestoreState(cart, state) == [cart EXCEPT !.lowerSegment = state]

(***************************************************************************)
(* dpcPlus (DPC+): N banks of 4096 bytes, one window, register file.       *)
(***************************************************************************)
armSize == 3072
dataSize == 4096
freqSize == 1024
DPCbankSize == 4096

\* the cartridge file a mapper with n banks is loaded from: the ARM program,
\* the banks, the display data, the frequency table. Every bank holds the
\* opcode of "lda #immediate" at address 256 and the index of the data
\* fetcher 0 register at address 257.
DPCImage(n, i) ==
    IF i >= armSize /\ i < armSize + n * DPCbankSize /\ (i - armSize) % DPCbankSize = 256
    THEN 169
    ELSE IF i >= armSize /\ i < armSize + n * DPCbankSize /\ (i - armSize) % DPCbankSize = 257
    THEN 8
    ELSE (3 * i + 17 * (i \div 256) + 41) % 256

DPCdataOffset(cart) == armSize + DPCbankSize * cart.numBanks
DPCfreqOffset(cart) == DPCdataOffset(cart) + dataSize
DPCfileSize(cart) == DPCfreqOffset(cart) + freqSize

DPCbank(cart, k, a) ==
    Load(cart.banks, <<k, a>>, DPCImage(cart.numBanks, armSize + k * DPCbankSize + a))
DPCData(cart, j) ==
    Load(cart.static.Data, j, DPCImage(cart.numBanks, DPCdataOffset(cart) + j))
DPCFreq(cart, j) ==
    Load(cart.static.Freq, j, DPCImage(cart.numBanks, DPCfreqOffset(cart) + j))

\* mutant: the first bank is selected
DPCInitialiseFirst(cart) == [cart EXCEPT !.bank = 0]

DPCInitialise(cart) == [cart EXCEPT !.bank = cart.numBanks - 1]

\* the zero value of DPCplusRegisters
DPCregisters0 ==
    [RNG |-> [Value |-> W32zero],
     Fetcher |-> [f \in 0..7 |-> [Low |-> 0, Hi |-> 0, Top |-> 0, Bottom |-> 0]],
     FracFetcher |-> [f \in 0..7 |-> [Low |-> 0, Hi |-> 0, Increment |-> 0, Count |-> 0]],
     MusicFetcher |-> [m \in 0..2 |-> [Waveform |-> 0, Freq |-> W32zero, Count |-> W32zero]],
     FastFetch |-> FALSE]

\* bankLen = n * 4096 for the accepted images
NewDPCplus(n) ==
    DPCInitialise([numBanks |-> n, banks |-> NoCells, bank |-> 0,
                   registers |-> DPCregisters0,
                   static |-> [Arm |-> NoCells, Data |-> NoCells, Freq |-> NoCells],
                   lda |-> FALSE, beats |-> 0])

\* ---- the register types (registers of the coprocessor) ----
\* 32-bit linear feedback shift register, forwards and backwards
RNGtaps == W32(4269, 43806)

RNGnext(v) ==
    W32xor(IF Bit(v[2], 1024) = 1 THEN RNGtaps ELSE W32zero, W32ror11(v))

RNGprev(v) ==
    IF v[1] >= 32768
    THEN W32rol11(W32xor(v, RNGtaps))
    ELSE W32rol11(v)

\* the 12-bit pointer of a (fractional) data fetcher
DFpointer(df) == Mask(df.Hi * 256 + df.Low, 4096)

DFinc(df) ==
    [df EXCEPT !.Low = U8(df.Low + 1),
               !.Hi = IF df.Low = 255 THEN U8(df.Hi + 1) ELSE df.Hi]

DFdec(df) ==
    [df EXCEPT !.Low = U8(df.Low + 255),
               !.Hi = IF df.Low = 0 THEN U8(df.Hi + 255) ELSE df.Hi]

\* the pointer lies in the window [Bottom, Top], wrapping when Bottom > Top
DFisWindow(df) ==
    IF df.Bottom <= df.Top
    THEN DFpointer(df) >= df.Bottom /\ DFpointer(df) <= df.Top
    ELSE DFpointer(df) >= df.Bottom \/ DFpointer(df) <= df.Top

FDFinc(df) ==
    LET count == U8(df.Count + df.Increment)
    IN  IF count < df.Increment
        THEN [df EXCEPT !.Count = count,
                        !.Low = U8(df.Low + 1),
                        !.Hi = IF df.Low = 255 THEN U8(df.Hi + 1) ELSE df.Hi]
        ELSE [df EXCEPT !.Count = count]

\* mutant: the bank is switched and the access then carries on as a plain one
DPCbankswitchFallsThrough(cart, addr, passive) ==
    IF addr >= 4086 /\ addr <= 4091 /\ ~passive
    THEN [cart |-> [cart EXCEPT !.bank = addr - 4086], hit |-> FALSE]
    ELSE [cart |-> cart, hit |-> addr >= 4086 /\ addr <= 4091]

\* bankswitch on hotspot access: [cart, hit]
DPCbankswitch(cart, addr, passive) ==
    IF addr >= 4086 /\ addr <= 4091
    THEN IF passive
         THEN [cart |-> cart, hit |-> TRUE]
         ELSE [cart |-> [cart EXCEPT !.bank = addr - 4086], hit |-> TRUE]
    ELSE [cart |-> cart, hit |-> FALSE]

\* the amplitude of music fetcher m
\* mutant: the counter contributes its top six bits
DPCmusicSixBits(cart, m) ==
    DPCData(cart, cart.registers.MusicFetcher[m].Waveform * 32
                  + cart.registers.MusicFetcher[m].Count[1] \div 1024)

DPCmusic(cart, m) ==
    DPCData(cart, cart.registers.MusicFetcher[m].Waveform * 32
                  + cart.registers.MusicFetcher[m].Count[1] \div 2048)

\* mutant: the pointer of a windowed fetcher advances only inside the window
DPCreadWindowedGated(cart, f) ==
    LET df == cart.registers.Fetcher[f]
    IN  IF DFisWindow(df)
        THEN Ret([cart EXCEPT !.registers.Fetcher[f] = DFinc(df)],
                 DPCData(cart, DFpointer(df)), "nil")
        ELSE Ret(cart, 0, "nil")

\* case 0x10 .. 0x17 of Read: the windowed data fetcher f
DPCreadWindowed(cart, f) ==
    LET df == cart.registers.Fetcher[f]
    IN  Ret([cart EXCEPT !.registers.Fetcher[f] = DFinc(df)],
            IF DFisWindow(df) THEN DPCData(cart, DFpointer(df)) ELSE 0,
            "nil")

\* the switch of Read: the read registers 0x00 .. 0x27
DPCreadRegister(cart, addr) ==
    LET f == Mask(addr, 8)
        regs == cart.registers
    IN  IF addr = 0
        THEN LET v == RNGnext(regs.RNG.Value)
             IN  Ret([cart EXCEPT !.registers.RNG.Value = v], W32byte(v, 0), "nil")
        ELSE IF addr = 1
        THEN LET v == RNGprev(regs.RNG.Value)
             IN  Ret([cart EXCEPT !.registers.RNG.Value = v], W32byte(v, 0), "nil")
        ELSE IF addr = 2 THEN Ret(cart, W32byte(regs.RNG.Value, 1), "nil")
        ELSE IF addr = 3 THEN Ret(cart, W32byte(regs.RNG.Value, 2), "nil")
        ELSE IF addr = 4 THEN Ret(cart, W32byte(regs.RNG.Value, 3), "nil")
        ELSE IF addr = 5
        THEN Ret(cart, U8(DPCmusic(cart, 0) + DPCmusic(cart, 1) + DPCmusic(cart, 2)), "nil")
        ELSE IF addr >= 8 /\ addr <= 15
        THEN Ret([cart EXCEPT !.registers.Fetcher[f] = DFinc(regs.Fetcher[f])],
                 DPCData(cart, DFpointer(regs.Fetcher[f])), "nil")
        ELSE IF addr >= 16 /\ addr <= 23
        THEN DPCreadWindowed(cart, f)
        ELSE IF addr >= 24 /\ addr <= 31
        THEN Ret([cart EXCEPT !.registers.FracFetcher[f] = FDFinc(regs.FracFetcher[f])],
                 DPCData(cart, DFpointer(regs.FracFetcher[f])), "nil")
        ELSE IF addr >= 32 /\ addr <= 35
        THEN Ret(cart, IF DFisWindow(regs.Fetcher[f]) THEN 255 ELSE 0, "nil")
        ELSE Ret(cart, 0, "nil")

\* what an activation of Read returns, with the number of activations of
\* Read entered so far; the evaluation is cut off at MaxDepth activations
Entered(r, entered) ==
    [cart |-> r.cart, data |-> r.data, err |-> r.err, entered |-> entered]

\* mutant: the fetched byte is not compared with 0x28 and the lda flag is not
\* reset before Read is entered again
RECURSIVE DPCReadFromUnguarded(_, _, _, _)
DPCReadFromUnguarded(cart, addr, passive, entered) ==
    LET bs == DPCbankswitch(cart, addr, passive)
    IN  IF entered >= MaxDepth
        THEN Entered(Ret(cart, 0, "stack overflow"), entered)
        ELSE IF bs.hit
        THEN Entered(Ret(bs.cart, 0, "nil"), entered + 1)
        ELSE IF addr > 127
        THEN IF cart.bank >= cart.numBanks \/ addr >= DPCbankSize
             THEN Entered(Ret(cart, 0, "panic"), entered + 1)
             ELSE LET data == DPCbank(cart, cart.bank, addr)
                  IN  IF cart.registers.FastFetch /\ cart.lda
                      THEN DPCReadFromUnguarded(cart, data, passive, entered + 1)
                      ELSE Entered(Ret([cart EXCEPT !.lda = cart.registers.FastFetch
                                                             /\ data = 169],
                                       data, "nil"), entered + 1)
        ELSE IF addr > 39
        THEN Entered(Ret(cart, 0, "AddressError"), entered + 1)
        ELSE Entered(DPCreadRegister(cart, addr), entered + 1)

RECURSIVE DPCReadFrom(_, _, _, _)
DPCReadFrom(cart, addr, passive, entered) ==
    LET bs == DPCbankswitch(cart, addr, passive)
    IN  IF entered >= MaxDepth
        THEN Entered(Ret(cart, 0, "stack overflow"), entered)
        ELSE IF bs.hit
        THEN Entered(Ret(bs.cart, 0, "nil"), entered + 1)
        ELSE IF addr > 127
        THEN IF cart.bank >= cart.numBanks \/ addr >= DPCbankSize
             THEN Entered(Ret(cart, 0, "panic"), entered + 1)
             ELSE LET data == DPCbank(cart, cart.bank, addr)
                  IN  IF cart.registers.FastFetch /\ cart.lda /\ data < 40
                      THEN DPCReadFrom([cart EXCEPT !.lda = FALSE], data, passive,
                                       entered + 1)
                      ELSE Entered(Ret([cart EXCEPT !.lda = cart.registers.FastFetch
                                                             /\ data = 169],
                                       data, "nil"), entered + 1)
        ELSE IF addr > 39
        THEN Entered(Ret(cart, 0, "AddressError"), entered + 1)
        ELSE Entered(DPCreadRegister(cart, addr), entered + 1)

DPCRead(cart, addr, passive) ==
    LET r == DPCReadFrom(cart, addr, passive, 0)
    IN  Ret(r.cart, r.data, r.err)

\* uint8 index arithmetic of the frequency table look-up: data<<2, +1, +2, +3
DPCnoteFreq(cart, data) ==
    W32(DPCFreq(cart, U8(U8(data * 4) + 2)) + DPCFreq(cart, U8(U8(data * 4) + 3)) * 256,
        DPCFreq(cart, U8(data * 4)) + DPCFreq(cart, U8(U8(data * 4) + 1)) * 256)

\* the switch of Write: the write registers 0x28 .. 0x7f
DPCwriteRegister(cart, addr, data) ==
    LET f == Mask(addr, 8)
        regs == cart.registers
    IN  IF addr >= 40 /\ addr <= 47
        THEN [cart EXCEPT !.registers.FracFetcher[f].Low = data,
                          !.registers.FracFetcher[f].Count = 0]
        ELSE IF addr >= 48 /\ addr <= 55
        THEN [cart EXCEPT !.registers.FracFetcher[f].Hi = data,
                          !.registers.FracFetcher[f].Count = 0]
        ELSE IF addr >= 56 /\ addr <= 63
        THEN [cart EXCEPT !.registers.FracFetcher[f].Increment = data,
                          !.registers.FracFetcher[f].Count = 0]
        ELSE IF addr >= 64 /\ addr <= 71
        THEN [cart EXCEPT !.registers.Fetcher[f].Top = data]
        ELSE IF addr >= 72 /\ addr <= 79
        THEN [cart EXCEPT !.registers.Fetcher[f].Bottom = data]
        ELSE IF addr >= 80 /\ addr <= 87
        THEN [cart EXCEPT !.registers.Fetcher[f].Low = data]
        ELSE IF addr = 88
        THEN [cart EXCEPT !.registers.FastFetch = (data = 0)]
        ELSE IF addr >= 93 /\ addr <= 95
        THEN [cart EXCEPT !.registers.MusicFetcher[addr - 93].Waveform = Mask(data, 128)]
        ELSE IF addr >= 96 /\ addr <= 103
        THEN LET df == DFdec(regs.Fetcher[f])
             IN  [cart EXCEPT !.registers.Fetcher[f] = df,
                              !.static.Data = Store(cart.static.Data, DFpointer(df), data,
                                  DPCImage(cart.numBanks, DPCdataOffset(cart) + DFpointer(df)))]
        ELSE IF addr >= 104 /\ addr <= 111
        THEN [cart EXCEPT !.registers.Fetcher[f].Hi = data]
        ELSE IF addr = 112
        THEN [cart EXCEPT !.registers.RNG.Value = W32(11075, 20548)]
        ELSE IF addr >= 113 /\ addr <= 116
        THEN [cart EXCEPT !.registers.RNG.Value = W32setByte(regs.RNG.Value, addr - 113, data)]
        ELSE IF addr >= 117 /\ addr <= 119
        THEN [cart EXCEPT !.registers.MusicFetcher[addr - 117].Freq = DPCnoteFreq(cart, data)]
        ELSE IF addr >= 120 /\ addr <= 127
        THEN LET p == DFpointer(regs.Fetcher[f])
             IN  [cart EXCEPT !.registers.Fetcher[f] = DFinc(regs.Fetcher[f]),
                              !.static.Data = Store(cart.static.Data, p, data,
                                  DPCImage(cart.numBanks, DPCdataOffset(cart) + p))]
        ELSE cart

DPCWrite(cart, addr, data, passive, poke) ==
    LET bs == DPCbankswitch(cart, addr, passive)
    IN  IF bs.hit
        THEN Ret(bs.cart, 0, "nil")
        ELSE IF addr < 40 \/ addr > 127
        THEN Ret(cart, 0, "AddressError")
        ELSE LET w == DPCwriteRegister(cart, addr, data)
             IN  IF poke
                 THEN IF w.bank >= w.numBanks
                      THEN Ret(w, 0, "panic")
                      ELSE Ret([w EXCEPT !.banks = Store(w.banks, <<w.bank, addr>>, data,
                                   DPCImage(w.numBanks, armSize + w.bank * DPCbankSize + addr))],
                               0, "nil")
                 ELSE Ret(w, 0, "AddressError")

\* the byte now held where the loader placed the byte at this offset of the file
DPCfileByte(cart, offset) ==
    IF offset < armSize
    THEN Load(cart.static.Arm, offset, DPCImage(cart.numBanks, offset))
    ELSE IF offset < DPCdataOffset(cart)
    THEN DPCbank(cart, (offset - armSize) \div DPCbankSize, (offset - armSize) % DPCbankSize)
    ELSE IF offset < DPCfreqOffset(cart)
    THEN DPCData(cart, offset - DPCdataOffset(cart))
    ELSE DPCFreq(cart, offset - DPCfreqOffset(cart))

DPCbanksOffset == armSize

DPCPatch(cart, offset, data) ==
    IF offset >= DPCfileSize(cart)
    THEN Ret(cart, 0, "PatchError")
    ELSE IF offset >= DPCfreqOffset(cart)
    THEN LET j == offset - DPCfreqOffset(cart)
         IN  Ret([cart EXCEPT !.static.Freq =
                     Store(cart.static.Freq, j, data, DPCImage(cart.numBanks, offset))],
                 0, "nil")
    ELSE IF offset >= DPCdataOffset(cart)
    THEN LET j == offset - DPCdataOffset(cart)
         IN  Ret([cart EXCEPT !.static.Data =
                     Store(cart.static.Data, j, data, DPCImage(cart.numBanks, offset))],
                 0, "nil")
    ELSE IF offset >= DPCbanksOffset
    THEN LET bank == offset \div DPCbankSize
             o == offset % DPCbankSize
         IN  IF bank >= cart.numBanks
             THEN Ret(cart, 0, "panic")
             ELSE Ret([cart EXCEPT !.banks =
                          Store(cart.banks, <<bank, o>>, data,
                                DPCImage(cart.numBanks, armSize + bank * DPCbankSize + o))],
                      0, "nil")
    \* Arm[offset - banksOffset]: the index is negative
    ELSE Ret(cart, 0, "panic")

\* the Number and the Origins of the banks copied, the origins relative to
\* memorymap.OriginCart
DPCCopyBanks(cart) ==
    [b \in 0..(cart.numBanks - 1) |-> [Number |-> b, Origins |-> {0}]]

\* the bank-switch entries of both hotspot tables: address 0x1ff6 + n has the
\* symbol "BANKn", kept as the bank n it names
DPCBankHotspots ==
    [a \in 8182..8187 |-> [Symbol |-> [bank |-> a - 8182], Action |-> "HotspotBankSwitch"]]

\* the table of ReadHotspots: the bank-switch entries and the read registers
\* 0x1000 .. 0x1027
DPCReadHotspots ==
    [a \in (8182..8187) \cup (4096..4135) |->
        IF a >= 8182 THEN DPCBankHotspots[a]
        ELSE [Symbol |-> [register |-> a - 4096],
              Action |-> IF a - 4096 \in {6, 7, 36, 37, 38, 39}
                         THEN "HotspotReserved" ELSE "HotspotRegister"]]

\* the table of WriteHotspots: the bank-switch entries and the write
\* registers 0x1028 .. 0x107f
DPCWriteHotspots ==
    [a \in (8182..8187) \cup (4136..4223) |->
        IF a >= 8182 THEN DPCBankHotspots[a]
        ELSE [Symbol |-> [register |-> a - 4096],
              Action |-> IF a - 4096 \in {91, 92}
                         THEN "HotspotReserved" ELSE "HotspotRegister"]]

DPCGetBank(cart, addr) == [Number |-> cart.bank, IsRAM |-> FALSE]

\* mutant: the music fetchers are clocked every 60 calls
DPCStepBy60(cart) ==
    IF (cart.beats + 1) % 60 = 0
    THEN [cart EXCEPT !.beats = 0,
                      !.registers.MusicFetcher =
                          [m \in 0..2 |->
                              [cart.registers.MusicFetcher[m] EXCEPT
                                  !.Count = W32add(cart.registers.MusicFetcher[m].Count,
                                                   cart.registers.MusicFetcher[m].Freq)]]]
    ELSE [cart EXCEPT !.beats = cart.beats + 1]

DPCStep(cart) ==
    IF (cart.beats + 1) % 59 = 0
    THEN [cart EXCEPT !.beats = 0,
                      !.registers.MusicFetcher =
                          [m \in 0..2 |->
                              [cart.registers.MusicFetcher[m] EXCEPT
                                  !.Count = W32add(cart.registers.MusicFetcher[m].Count,
                                                   cart.registers.MusicFetcher[m].Freq)]]]
    ELSE [cart EXCEPT !.beats = cart.beats + 1]

(***************************************************************************)
(* The calls made on the attached mapper.                                  *)
(***************************************************************************)
\* addresses (already masked to the cartridge's address space) of the calls
PBHotspots == 4064..4087
PBAddrs == {34, 1029, 3077, 4063, 4088} \cup {4064, 4071, 4076, 4079, 4080, 4087}
PBOffsets == {10, 8191, 8192}

DPCHotspots == 4086..4091
DPCReadAddrs == {0, 5, 8, 16, 24, 32, 40, 128, 256, 257, 4085, 4092} \cup {4086, 4091}
DPCWriteAddrs == {39, 56, 64, 80, 88, 93, 96, 113, 117, 120, 128, 4092} \cup {4086, 4091}
\* the writes made: <<address, byte>>; fast fetch is switched on by writing 0
DPCWrites == (DPCWriteAddrs \X Bytes) \cup {<<88, 0>>}
\* the file offsets patched: in the ARM program, the banks, the display data
\* and the frequency table, and at the end of the file
DPCOffsets(cart) ==
    {0, armSize, armSize + 10, DPCdataOffset(cart) - 1, DPCdataOffset(cart) + 5,
     DPCfreqOffset(cart) + 5, DPCfileSize(cart) - 1, DPCfileSize(cart),
     DPCfileSize(cart) + 1}
\* the numbers of banks of the cartridge images loaded
DPCBankCounts == {2, 6}

MNHotspots == (4064..4071) \cup (4088..4091)
MNAddrs == {0, 5, 1023, 1024, 1029, 2047, 2048, 2053, 2304, 2309, 2560, 4063, 4092, 4096}
               \cup {4064, 4070, 4071, 4088, 4089, 4091}
MNBankArgs == {-1, 0, 7, 8, 9}

\* no saveState call was made yet
(***************************************************************************)
(* The constructors applied to a cartridge file of len bytes, whose byte i *)
(* is PBImage(i), DPCImage(n, i), MNImage(i); and the ejected mapper.      *)
(***************************************************************************)
Loaded(cart) == [ok |-> TRUE, cart |-> cart, err |-> "nil"]
NotLoaded(cart, err) == [ok |-> FALSE, cart |-> cart, err |-> err]

\* mutant: only images that are too short are refused
newParkerBrosAtLeast(len) ==
    IF len < PBbankSize * PBNumBanks
    THEN NotLoaded(newParkerBros, "wrong number of bytes")
    ELSE Loaded(newParkerBros)

newParkerBrosOf(len) ==
    IF len # PBbankSize * PBNumBanks
    THEN NotLoaded(newParkerBros, "wrong number of bytes")
    ELSE Loaded(newParkerBros)

NewDPCplusOf(len) ==
    LET bankLen == len - dataSize - armSize - freqSize
    IN  IF bankLen <= 0 \/ bankLen % DPCbankSize # 0
        THEN NotLoaded(NewDPCplus(6), "wrong number of bytes")
        ELSE Loaded(NewDPCplus(bankLen \div DPCbankSize))

\* cf.Read(cart.banks[k]) with the file at offset k * bankSize: the number
\* of bytes read and the error
MNreadBank(len, k) ==
    LET remaining == len - k * MNbankSize
    IN  IF remaining <= 0 THEN [n |-> 0, err |-> "EOF"]
        ELSE IF remaining < MNbankSize THEN [n |-> remaining, err |-> "nil"]
        ELSE [n |-> MNbankSize, err |-> "nil"]

newMnetworkOf(len) ==
    LET failed == {k \in 0..(MNnumBanks - 1) :
                      MNreadBank(len, k).err # "nil" \/ MNreadBank(len, k).n # MNbankSize}
    IN  IF failed # {}
        THEN LET k == CHOOSE k \in failed : \A j \in failed : k <= j
             IN  IF MNreadBank(len, k).err # "nil"
                 THEN NotLoaded(newMnetwork, MNreadBank(len, k).err)
                 ELSE NotLoaded(newMnetwork, "CartridgeFileError")
        ELSE Loaded(newMnetwork)

newEjected == [method |-> "ejected"]

\* mutant: a read of the ejected mapper answers 0 without an error
EJreadSilent(cart, addr) == Ret(cart, 0, "nil")

EJread(cart, addr) == Ret(cart, 0, "CartridgeEjected")
EJwrite(cart, addr, data, isPoke) == Ret(cart, 0, "CartridgeEjected")
EJnumBanks(cart) == 0
EJsetAddressBank(cart, addr, bank) == Ret(cart, 0, "CartridgeError")

(***************************************************************************)
(* prefs: the Disk type.  A line of the preferences file is a sequence of  *)
(* pieces, a piece being one character or the separator keySep; a key and  *)
(* a value are sequences of pieces as well.                                *)
(***************************************************************************)
WarningBoilerPlate == <<"*** do not edit this file by hand ***">>
keySep == " :: "
NoFile == [exists |-> FALSE, lines |-> <<>>]
FileOf(lines) == [exists |-> TRUE, lines |-> lines]
NoEntries == [k \in {} |-> <<>>]

NewDisk == [entries |-> NoEntries]

\* strings.SplitN(line, keySep, 2)
SplitN2(line) ==
    LET at == {i \in 1..Len(line) : line[i] = keySep}
    IN  IF at = {} THEN <<line>>
        ELSE LET i == CHOOSE i \in at : \A j \in at : i <= j
             IN  <<SubSeq(line, 1, i - 1), SubSeq(line, i + 1, Len(line))>>

\* the order of the characters, and of strings by sort.Strings
Rank(c) ==
    CASE c = keySep -> 0
      [] c = "." -> 1
      [] c = "1" -> 2
      [] c = "2" -> 3
      [] c = "9" -> 4
      [] c = "a" -> 5
      [] c = "b" -> 6
      [] c = "c" -> 7
      [] OTHER -> 8

RECURSIVE StringLeq(_, _)
StringLeq(x, y) ==
    IF x = <<>> THEN TRUE
    ELSE IF y = <<>> THEN FALSE
    ELSE IF Rank(Head(x)) # Rank(Head(y)) THEN Rank(Head(x)) < Rank(Head(y))
    ELSE StringLeq(Tail(x), Tail(y))

\* entryMap.String: a line "key :: value" for every key, the keys sorted
RECURSIVE EntryMapString(_, _)
EntryMapString(e, keys) ==
    IF keys = {} THEN <<>>
    ELSE LET k == CHOOSE k \in keys : \A j \in keys : StringLeq(k, j)
         IN  <<k \o <<keySep>> \o e[k]>> \o EntryMapString(e, keys \ {k})

\* the loop of load over the lines after the first: a value is assigned to
\* an entry that exists, and stored as a new entry if the load is unlimited
RECURSIVE loadLines(_, _, _, _)
loadLines(lines, entries, limit, numLoaded) ==
    IF lines = <<>> THEN [numLoaded |-> numLoaded, entries |-> entries, err |-> "nil"]
    ELSE LET spt == SplitN2(Head(lines))
         IN  IF Len(spt) # 2
             THEN loadLines(Tail(lines), entries, limit, numLoaded)
             ELSE IF spt[1] \in DOMAIN entries
             THEN loadLines(Tail(lines), [entries EXCEPT ![spt[1]] = spt[2]], limit,
                            numLoaded + 1)
             ELSE IF ~limit
             THEN loadLines(Tail(lines),
                            [k \in DOMAIN entries \cup {spt[1]} |->
                                IF k = spt[1] THEN spt[2] ELSE entries[k]],
                            limit, numLoaded)
             ELSE loadLines(Tail(lines), entries, limit, numLoaded)

prefsLoad(path, entries, limit) ==
    IF ~path.exists
    THEN [numLoaded |-> 0, entries |-> entries, err |-> "PrefsNoFile"]
    ELSE IF path.lines = <<>> \/ Head(path.lines) # WarningBoilerPlate
    THEN [numLoaded |-> 0, entries |-> entries, err |-> "PrefsNotValid"]
    ELSE loadLines(Tail(path.lines), entries, limit, 0)

\* Add: the key is made of letters and periods only
DiskAdd(d, key, p) ==
    IF \E i \in 1..Len(key) : key[i] \notin {".", "a", "b", "c"}
    THEN [dsk |-> d, err |-> "Prefs"]
    ELSE [dsk |-> [d EXCEPT !.entries =
                      [k \in DOMAIN d.entries \cup {key} |->
                          IF k = key THEN p ELSE d.entries[k]]],
          err |-> "nil"]

DiskSave(d, path) ==
    LET l == prefsLoad(path, NoEntries, FALSE)
        entries == [k \in DOMAIN l.entries \cup DOMAIN d.entries |->
                       IF k \in DOMAIN d.entries THEN d.entries[k] ELSE l.entries[k]]
    IN  IF l.err \notin {"nil", "PrefsNoFile"}
        THEN [dsk |-> d, path |-> path, err |-> l.err]
        ELSE [dsk |-> d,
              path |-> FileOf(<<WarningBoilerPlate>>
                                \o EntryMapString(entries, DOMAIN entries)),
              err |-> "nil"]

DiskLoad(d, path, saveOnFirstUse) ==
    LET l == prefsLoad(path, d.entries, TRUE)
        loaded == [d EXCEPT !.entries = l.entries]
    IN  IF l.err # "nil"
        THEN [dsk |-> loaded, path |-> path, err |-> l.err]
        ELSE IF saveOnFirstUse /\ l.numLoaded # Cardinality(DOMAIN loaded.entries)
        THEN DiskSave(loaded, path)
        ELSE [dsk |-> loaded, path |-> path, err |-> "nil"]

DiskHasEntry(d, path, key) ==
    LET l == prefsLoad(path, [k \in {key} |-> <<>>], TRUE)
    IN  IF l.err # "nil"
        THEN [ret |-> FALSE, err |-> l.err]
        ELSE [ret |-> l.numLoaded # 1, err |-> "nil"]

(***************************************************************************)
(* debugger: PushRewind, run by the GUI thread, and the function it pushes,  *)
(* run by the debugger loop.                                               *)
(***************************************************************************)
RewindingCap == 1

StatePaused == "StatePaused"
StateRewinding == "StateRewinding"
StateGotoCoords == "StateGotoCoords"

\* a pushed function is that of PushGotoCoords if it holds a scanline and a
\* horizontal position, and that of PushRewind if it holds fn and last
IsGotoCoords(f) == "scanline" \in DOMAIN f

NotPushing == [pc |-> "idle", fn |-> 0, last |-> FALSE]
NotRunning == [pc |-> "idle", fn |-> 0, last |-> FALSE, err |-> "nil"]

RewindIdle ==
    /\ rewinding = 0
    /\ events = <<>>
    /\ running = NotRunning
    /\ pushing = NotPushing
    /\ scr = StatePaused

\* mutant: the slot is given back only when the Goto call succeeded
ReleaseOnSuccess(n, err) == IF err = "nil" THEN n - 1 ELSE n

\* the deferred receive from dbg.rewinding
Release(n, err) == n - 1

\* mutant: the pushed function returns when the Goto call fails
ReqFeatureAfterSuccess(state, err) == IF err = "nil" THEN StatePaused ELSE state

\* the request made of the GUI after the Goto call and the logging of its error
ReqFeatureAfter(state, err) == StatePaused

(***************************************************************************)
(* The feature requests of sdlimgui.                                       *)
(***************************************************************************)
ReqState == "ReqState"
ReqSavePrefs == "ReqSavePrefs"
\* a request that is none of the gui.FeatureReq values
ReqOther == "ReqOther"
UnsupportedGuiFeature == "UnsupportedGuiFeature"

\* an error is the sequence of the patterns it was wrapped in, nil the empty one
NilErr == <<>>
Errorf(pattern, err) == <<pattern>> \o err

\* the switch of serviceSetFeature: what it leaves in err, saved being what
\* img.prefs.save and img.crtPrefs.Save returned
serviceSetFeatureErr(request, saved) ==
    IF request = ReqState THEN NilErr
    ELSE IF request = ReqSavePrefs THEN saved
    ELSE Errorf(UnsupportedGuiFeature, NilErr)

\* mutant: nothing is sent when the request failed
SetRepliesOnSuccess(err) == IF err = NilErr THEN <<NilErr>> ELSE <<>>

\* the values serviceSetFeature sends on featureSetErr
SetReplies(err) == IF err = NilErr THEN <<NilErr>> ELSE <<Errorf("sdlimgui", err)>>

\* the values serviceGetFeature sends on featureGetData and featureGetErr
GetData(request, state) == IF request = ReqState THEN <<state>> ELSE <<>>
GetErr(request) ==
    IF request = ReqState THEN NilErr ELSE Errorf(UnsupportedGuiFeature, NilErr)

\* a channel made with capacity cap holds cap values; a value sent on an
\* unbuffered channel is held by it until it is received, its sender waiting
Room(ch, cap) == Len(ch) < (IF cap = 0 THEN 1 ELSE cap)
Sent(ch, cap, id) == cap > 0 \/ \A i \in 1..Len(ch) : ch[i].id # id

NoReply == [id |-> 0, val |-> NilErr]
NoService == [pc |-> "idle", id |-> 0, request |-> ReqState]

NewSdlImgui(cap) ==
    [cap |-> cap, featureSet |-> <<>>, featureSetErr |-> <<>>, featureGet |-> <<>>,
     featureGetData |-> <<>>, featureGetErr |-> <<>>, state |-> StatePaused,
     calls |-> <<>>, drains |-> 0, svc |-> NoService]

(***************************************************************************)
(* The television's resizer.                                               *)
(***************************************************************************)
\* specification.HorizClksHBlank, the color clocks of the horizontal blank
HorizClksHBlank == 68

NoSignal == [syncedFrame |-> FALSE, horizPos |-> 0, scanline |-> 0, VBlank |-> FALSE,
             Pixel |-> 0]

\* a resizer holding top and bottom under the specification spec; n counts
\* the examine calls made, was holds top and bottom as the last call found
\* them and on what that call was given
Resizer(top, bottom, spec) ==
    [top |-> top, bottom |-> bottom, spec |-> spec, n |-> 0,
     was |-> [top |-> top, bottom |-> bottom], on |-> NoSignal]

\* mutant: the top is extended to any scanline above it
examineAnyTop(sr, on) ==
    IF ~on.syncedFrame THEN sr
    ELSE IF on.horizPos > HorizClksHBlank /\ ~on.VBlank /\ on.Pixel > 0
         THEN IF on.scanline < sr.top
              THEN [sr EXCEPT !.top = on.scanline]
              ELSE IF on.scanline > sr.bottom /\ on.scanline <= sr.spec.NewSafeBottom
                   THEN [sr EXCEPT !.bottom = on.scanline]
                   ELSE sr
         ELSE sr

\* examine: on holds tv.state.syncedFrame, tv.state.horizPos,
\* tv.state.scanline, sig.VBlank and sig.Pixel
examine(sr, on) ==
    IF ~on.syncedFrame THEN sr
    ELSE IF on.horizPos > HorizClksHBlank /\ ~on.VBlank /\ on.Pixel > 0
         THEN IF on.scanline < sr.top /\ on.scanline >= sr.spec.NewSafeTop
              THEN [sr EXCEPT !.top = on.scanline]
              ELSE IF on.scanline > sr.bottom /\ on.scanline <= sr.spec.NewSafeBottom
                   THEN [sr EXCEPT !.bottom = on.scanline]
                   ELSE sr
         ELSE sr

\* the resizer of a television that was not started
NoResizer == Resizer(0, 0, [NewSafeTop |-> 0, NewSafeBottom |-> 0])
(***************************************************************************)
(* The regression commands.                                                *)
(***************************************************************************)
regressionSkipped == "regression skipped"
regressionQuitEarly == "regression quit early"

\* curated.Has and curated.Is
Has(err, pattern) == \E i \in 1..Len(err) : err[i] = pattern
Is(err, pattern) == err # NilErr /\ err[1] = pattern

\* the regression database holding entries, and no command running
Database(entries) ==
    [fn |-> "none", pc |-> "idle", entries |-> entries, before |-> entries,
     todo |-> <<>>, err |-> NilErr, ret |-> NilErr, quitEarly |-> FALSE,
     numSucceed |-> 0, numFail |-> 0, numError |-> 0, numSkipped |-> 0,
     run |-> 0, late |-> 0, summary |-> <<>>]

NoRegression == Database(<<>>)

\* mutant: a skipped regression is counted as an error as well
TallySkippedAsError(r, ok, err) ==
    IF err # NilErr
    THEN IF Has(err, regressionSkipped)
         THEN [r EXCEPT !.numSkipped = @ + 1, !.numError = @ + 1]
         ELSE [r EXCEPT !.numError = @ + 1]
    ELSE IF ~ok THEN [r EXCEPT !.numFail = @ + 1]
    ELSE [r EXCEPT !.numSucceed = @ + 1]

\* onSelect, the completion message: what regress returned is counted
Tally(r, ok, err) ==
    IF err # NilErr
    THEN IF Has(err, regressionSkipped)
         THEN [r EXCEPT !.numSkipped = @ + 1]
         ELSE [r EXCEPT !.numError = @ + 1]
    ELSE IF ~ok THEN [r EXCEPT !.numFail = @ + 1]
    ELSE [r EXCEPT !.numSucceed = @ + 1]

\* onSelect of RegressRun for the entry ent: regress returns ok and err, and
\* a second interrupt within a quarter of a second of the first came while
\* it ran if quit
onSelect(r, ent, ok, err, quit) ==
    IF r.quitEarly THEN [r EXCEPT !.err = Errorf(regressionQuitEarly, NilErr)]
    ELSE IF ent.kind = "other" THEN [r EXCEPT !.err = <<"regression: run: database entry">>]
    ELSE [Tally(r, ok, err) EXCEPT !.run = @ + 1, !.quitEarly = @ \/ quit]

\* what RegressRun returns of what db.SelectKeys returned
RegressRunErr(err) ==
    IF err # NilErr /\ ~Is(err, regressionQuitEarly)
    THEN Errorf("regression: run", err) ELSE NilErr

\* db.Delete and db.Add
DBDelete(entries, key) == SelectSeq(entries, LAMBDA e : e.key # key)
DBNextKey(entries) ==
    IF entries = <<>> THEN 0
    ELSE 1 + CHOOSE k \in {entries[i].key : i \in 1..Len(entries)} :
                \A j \in 1..Len(entries) : entries[j].key <= k
DBAdd(entries, reg) == Append(entries, [reg EXCEPT !.key = DBNextKey(entries)])

\* redux for the entry reg under key, regress returning err
redux(r, key, reg, err) ==
    LET deleted == [r EXCEPT !.entries = DBDelete(@, key)]
    IN  IF err # NilErr THEN [deleted EXCEPT !.err = err]
        ELSE [deleted EXCEPT !.entries = DBAdd(@, reg)]

\* the function RegressRedux gives to db.ForEach
reduxEach(r, key, reg, err) ==
    IF reg.kind \in {"VideoRegression", "LogRegression"}
    THEN LET n == redux(r, key, reg, err)
         IN  IF n.err # NilErr
             THEN [n EXCEPT !.err = Errorf("regression: redux", @)] ELSE n
    ELSE r
(***************************************************************************)
(* The DPC+ State and its snapshot.                                        *)
(***************************************************************************)
\* the capacity the parameters slice is made with
ParametersCap == 32

\* a State: parameters is a slice, the array it points to and its length
newDPCPlusState ==
    [registers |-> 0, bank |-> 0, lda |-> FALSE, beats |-> 0,
     parameters |-> [arr |-> 1, len |-> 0]]

\* Snapshot: n := *s copies the fields of s, of parameters the pointer and
\* the length
Snapshot(s) == s

\* what a State holds: its fields, and of the array its parameters point to
\* the elements inside their length
Holds(st, heap) ==
    [registers |-> st.registers, bank |-> st.bank, lda |-> st.lda, beats |-> st.beats,
     parameters |-> SubSeq(heap[st.parameters.arr], 1, st.parameters.len)]

\* s.parameters = s.parameters[:0]
Truncated(st) == [st EXCEPT !.parameters.len = 0]

\* append(s.parameters, v) inside the capacity: the element after the length
\* is written in the array pointed to
Appended(st, v) == [st EXCEPT !.parameters.len = @ + 1]
AppendedTo(st, heap, v) ==
    LET a == heap[st.parameters.arr]
        i == st.parameters.len + 1
    IN  [heap EXCEPT ![st.parameters.arr] =
            IF i <= Len(a) THEN [a EXCEPT ![i] = v] ELSE Append(a, v)]

\* the live State s, the State n that Snapshot returned once taken, the
\* arrays made, and what s and n held after the snapshot and the later
\* mutations of each
NoState ==
    [s |-> newDPCPlusState, n |-> newDPCPlusState, taken |-> FALSE, heap |-> <<<<>>>>,
     kept |-> [s |-> Holds(newDPCPlusState, <<<<>>>>), n |-> Holds(newDPCPlusState, <<<<>>>>)],
     ops |-> 0]

ApartIdle ==
    /\ img = NewSdlImgui(0)
    /\ rsz = NoResizer
    /\ regression = NoRegression
    /\ dpcState = NoState

NoSnapshot == [taken |-> FALSE, state |-> 0, of |-> newMnetwork]

NoCall == [op |-> "load", addr |-> 0, data |-> 0, passive |-> FALSE, poke |-> FALSE,
           ret |-> 0, err |-> "nil"]

Init ==
    /\ attached \in {"parkerBros", "dpcPlus", "mnetwork"}
    /\ parkerBros = newParkerBros
    /\ dpcPlus \in {NewDPCplus(n) : n \in IF attached = "dpcPlus" THEN DPCBankCounts ELSE {6}}
    /\ mnetwork = newMnetwork
    /\ snapshot = NoSnapshot
    /\ last = NoCall
    /\ ops = 0
    /\ steps = 0
    /\ file = IF attached = "parkerBros" THEN PBbankSize * PBNumBanks
              ELSE IF attached = "dpcPlus" THEN DPCfileSize(dpcPlus)
              ELSE MNbankSize * MNnumBanks
    /\ ejected = newEjected
    /\ dsk = NewDisk
    /\ prefsFile = NoFile
    /\ RewindIdle
    /\ ApartIdle

\* a call is made only while the emulation runs: a panic ends the process
Live(m) == attached = m /\ ops < MaxOps /\ last.err # "panic"

Called(op, addr, data, passive, poke, r) ==
    /\ last' = [op |-> op, addr |-> addr, data |-> data, passive |-> passive, poke |-> poke,
                ret |-> r.data, err |-> r.err]
    /\ ops' = ops + 1
    /\ steps' = IF op = "Step" THEN steps + 1 ELSE steps
    /\ UNCHANGED <<file, ejected, dsk, prefsFile, rewindVars, apart>>

ParkerBrosRead ==
    /\ Live("parkerBros")
    /\ \E addr \in PBAddrs, passive \in BOOLEAN :
          LET r == PBRead(parkerBros, addr, passive)
          IN  parkerBros' = r.cart /\ Called("Read", addr, 0, passive, FALSE, r)
    /\ UNCHANGED <<attached, snapshot, dpcPlus, mnetwork>>

ParkerBrosWrite ==
    /\ Live("parkerBros")
    /\ \E addr \in PBAddrs, data \in Bytes, passive \in BOOLEAN, poke \in BOOLEAN :
          LET r == PBWrite(parkerBros, addr, data, passive, poke)
          IN  parkerBros' = r.cart /\ Called("Write", addr, data, passive, poke, r)
    /\ UNCHANGED <<attached, snapshot, dpcPlus, mnetwork>>

ParkerBrosPatch ==
    /\ Live("parkerBros")
    /\ \E offset \in PBOffsets, data \in Bytes :
          LET r == PBPatch(parkerBros, offset, data)
          IN  parkerBros' = r.cart /\ Called("Patch", offset, data, FALSE, FALSE, r)
    /\ UNCHANGED <<attached, snapshot, dpcPlus, mnetwork>>

ParkerBrosInitialise ==
    /\ Live("parkerBros")
    /\ parkerBros' = PBInitialise(parkerBros)
    /\ Called("Initialise", 0, 0, FALSE, FALSE, Ret(parkerBros, 0, "nil"))
    /\ UNCHANGED <<attached, snapshot, dpcPlus, mnetwork>>

DpcPlusRead ==
    /\ Live("dpcPlus")
    /\ \E addr \in DPCReadAddrs, passive \in BOOLEAN :
          LET r == DPCRead(dpcPlus, addr, passive)
          IN  dpcPlus' = r.cart /\ Called("Read", addr, 0, passive, FALSE, r)
    /\ UNCHANGED <<attached, snapshot, parkerBros, mnetwork>>

DpcPlusWrite ==
    /\ Live("dpcPlus")
    /\ \E w \in DPCWrites, passive \in BOOLEAN, poke \in BOOLEAN :
          LET r == DPCWrite(dpcPlus, w[1], w[2], passive, poke)
          IN  dpcPlus' = r.cart /\ Called("Write", w[1], w[2], passive, poke, r)
    /\ UNCHANGED <<attached, snapshot, parkerBros, mnetwork>>

DpcPlusStep ==
    /\ Live("dpcPlus")
    /\ dpcPlus' = DPCStep(dpcPlus)
    /\ Called("Step", 0, 0, FALSE, FALSE, Ret(dpcPlus, 0, "nil"))
    /\ UNCHANGED <<attached, snapshot, parkerBros, mnetwork>>

DpcPlusInitialise ==
    /\ Live("dpcPlus")
    /\ dpcPlus' = DPCInitialise(dpcPlus)
    /\ Called("Initialise", 0, 0, FALSE, FALSE, Ret(dpcPlus, 0, "nil"))
    /\ UNCHANGED <<attached, snapshot, parkerBros, mnetwork>>

MnetworkRead ==
    /\ Live("mnetwork")
    /\ \E addr \in MNAddrs :
          LET r == MNread(mnetwork, addr)
          IN  mnetwork' = r.cart /\ Called("read", addr, 0, FALSE, FALSE, r)
    /\ UNCHANGED <<attached, snapshot, parkerBros, dpcPlus>>

MnetworkWrite ==
    /\ Live("mnetwork")
    /\ \E addr \in MNAddrs, data \in Bytes :
          LET r == MNwrite(mnetwork, addr, data)
          IN  mnetwork' = r.cart /\ Called("write", addr, data, FALSE, FALSE, r)
    /\ UNCHANGED <<attached, snapshot, parkerBros, dpcPlus>>

DpcPlusPatch ==
    /\ Live("dpcPlus")
    /\ \E offset \in DPCOffsets(dpcPlus), data \in Bytes :
          LET r == DPCPatch(dpcPlus, offset, data)
          IN  dpcPlus' = r.cart /\ Called("Patch", offset, data, FALSE, FALSE, r)
    /\ UNCHANGED <<attached, snapshot, parkerBros, mnetwork>>

MnetworkSaveState ==
    /\ Live("mnetwork")
    /\ snapshot' = [taken |-> TRUE, state |-> MNsaveState(mnetwork), of |-> mnetwork]
    /\ Called("saveState", 0, 0, FALSE, FALSE, Ret(mnetwork, 0, "nil"))
    /\ UNCHANGED <<attached, parkerBros, dpcPlus, mnetwork>>

MnetworkRestoreState ==
    /\ Live("mnetwork")
    /\ snapshot.taken
    /\ mnetwork' = MNrestoreState(mnetwork, snapshot.state)
    /\ Called("restoreState", 0, 0, FALSE, FALSE, Ret(mnetwork, 0, "nil"))
    /\ UNCHANGED <<attached, snapshot, parkerBros, dpcPlus>>

MnetworkSetBank ==
    /\ Live("mnetwork")
    /\ \E addr \in {0, 2048, 4096}, bank \in MNBankArgs :
          LET r == MNsetBank(mnetwork, addr, bank)
          IN  mnetwork' = r.cart /\ Called("setBank", addr, bank, FALSE, FALSE, r)
    /\ UNCHANGED <<attached, snapshot, parkerBros, dpcPlus>>

MnetworkInitialise ==
    /\ Live("mnetwork")
    /\ mnetwork' = MNinitialise(mnetwork)
    /\ Called("Initialise", 0, 0, FALSE, FALSE, Ret(mnetwork, 0, "nil"))
    /\ UNCHANGED <<attached, snapshot, parkerBros, dpcPlus>>

Next ==
    \/ ParkerBrosRead
    \/ ParkerBrosWrite
    \/ ParkerBrosPatch
    \/ ParkerBrosInitialise
    \/ DpcPlusRead
    \/ DpcPlusWrite
    \/ DpcPlusStep
    \/ DpcPlusInitialise
    \/ MnetworkRead
    \/ MnetworkWrite
    \/ MnetworkSetBank
    \/ MnetworkInitialise
    \/ DpcPlusPatch
    \/ MnetworkSaveState
    \/ MnetworkRestoreState

Spec == Init /\ [][Next]_vars

(***************************************************************************)
(* Longer runs of fewer calls: a patch, a bank switch and a read back; the *)
(* fast fetch mode switched on, an opcode fetch and an operand fetch; a    *)
(* saved state, further accesses and the state restored.                   *)
(***************************************************************************)
MaxLong == 5

LongPBAddrs == {10, 4064, 4065}
LongPBOffsets == {10, 1034}
LongDPCReadAddrs == {16, 64, 256, 257, 4086}
LongDPCWrites == {<<88, 0>>, <<88, 66>>, <<64, 66>>}
LongMNReadAddrs == {1029, 2309}
LongMNWriteAddrs == {5, 2053, 4071, 4089}

Long(m) == attached = m /\ ops < MaxLong /\ last.err # "panic"

LongParkerBrosRead ==
    /\ Long("parkerBros")
    /\ \E addr \in LongPBAddrs :
          LET r == PBRead(parkerBros, addr, FALSE)
          IN  parkerBros' = r.cart /\ Called("Read", addr, 0, FALSE, FALSE, r)
    /\ UNCHANGED <<attached, snapshot, dpcPlus, mnetwork>>

LongParkerBrosPatch ==
    /\ Long("parkerBros")
    /\ \E offset \in LongPBOffsets, data \in Bytes :
          LET r == PBPatch(parkerBros, offset, data)
          IN  parkerBros' = r.cart /\ Called("Patch", offset, data, FALSE, FALSE, r)
    /\ UNCHANGED <<attached, snapshot, dpcPlus, mnetwork>>

LongDpcPlusRead ==
    /\ Long("dpcPlus")
    /\ \E addr \in LongDPCReadAddrs :
          LET r == DPCRead(dpcPlus, addr, FALSE)
          IN  dpcPlus' = r.cart /\ Called("Read", addr, 0, FALSE, FALSE, r)
    /\ UNCHANGED <<attached, snapshot, parkerBros, mnetwork>>

LongDpcPlusWrite ==
    /\ Long("dpcPlus")
    /\ \E w \in LongDPCWrites :
          LET r == DPCWrite(dpcPlus, w[1], w[2], FALSE, FALSE)
          IN  dpcPlus' = r.cart /\ Called("Write", w[1], w[2], FALSE, FALSE, r)
    /\ UNCHANGED <<attached, snapshot, parkerBros, mnetwork>>

LongMnetworkRead ==
    /\ Long("mnetwork")
    /\ \E addr \in LongMNReadAddrs :
          LET r == MNread(mnetwork, addr)
          IN  mnetwork' = r.cart /\ Called("read", addr, 0, FALSE, FALSE, r)
    /\ UNCHANGED <<attached, snapshot, parkerBros, dpcPlus>>

LongMnetworkWrite ==
    /\ Long("mnetwork")
    /\ \E addr \in LongMNWriteAddrs, data \in Bytes :
          LET r == MNwrite(mnetwork, addr, data)
          IN  mnetwork' = r.cart /\ Called("write", addr, data, FALSE, FALSE, r)
    /\ UNCHANGED <<attached, snapshot, parkerBros, dpcPlus>>

LongMnetworkSaveState ==
    /\ Long("mnetwork")
    /\ snapshot' = [taken |-> TRUE, state |-> MNsaveState(mnetwork), of |-> mnetwork]
    /\ Called("saveState", 0, 0, FALSE, FALSE, Ret(mnetwork, 0, "nil"))
    /\ UNCHANGED <<attached, parkerBros, dpcPlus, mnetwork>>

LongMnetworkRestoreState ==
    /\ Long("mnetwork")
    /\ snapshot.taken
    /\ mnetwork' = MNrestoreState(mnetwork, snapshot.state)
    /\ Called("restoreState", 0, 0, FALSE, FALSE, Ret(mnetwork, 0, "nil"))
    /\ UNCHANGED <<attached, snapshot, parkerBros, dpcPlus>>

LongNext ==
    \/ LongParkerBrosRead
    \/ LongParkerBrosPatch
    \/ LongDpcPlusRead
    \/ LongDpcPlusWrite
    \/ LongMnetworkRead
    \/ LongMnetworkWrite
    \/ LongMnetworkSaveState
    \/ LongMnetworkRestoreState

LongSpec == Init /\ [][LongNext]_vars

(***************************************************************************)
(* The music fetchers: the notes are set, then the cartridge is stepped.   *)
(***************************************************************************)
MaxNotes == 2
MaxSteps == 120

\* the bytes written to the note registers 0x75 .. 0x77
Notes == {1, 66}

MusicWrite ==
    /\ attached = "dpcPlus" /\ steps = 0 /\ ops < MaxNotes
    /\ \E m \in 0..2, data \in Notes :
          LET r == DPCWrite(dpcPlus, 117 + m, data, FALSE, FALSE)
          IN  dpcPlus' = r.cart /\ Called("Write", 117 + m, data, FALSE, FALSE, r)
    /\ UNCHANGED <<attached, snapshot, parkerBros, mnetwork>>

MusicStep ==
    /\ attached = "dpcPlus" /\ steps < MaxSteps
    /\ dpcPlus' = DPCStep(dpcPlus)
    /\ Called("Step", 0, 0, FALSE, FALSE, Ret(dpcPlus, 0, "nil"))
    /\ UNCHANGED <<attached, snapshot, parkerBros, mnetwork>>

MusicNext ==
    \/ MusicWrite
    \/ MusicStep

MusicSpec == Init /\ [][MusicNext]_vars

(***************************************************************************)
(* The session from the ejected state: accesses of the ejected mapper, and *)
(* the attachment of a cartridge file of some length to each constructor.  *)
(***************************************************************************)
MaxFile == 37
FileSizes == {k * 1024 + d : k \in 0..MaxFile, d \in {0 - 1, 0, 1}} \cap Nat
EJAddrs == {0, 4095}
EJBankArgs == {0, 7}

LoadInit ==
    /\ attached = "ejected"
    /\ ejected = newEjected
    /\ dsk = NewDisk
    /\ prefsFile = NoFile
    /\ RewindIdle
    /\ ApartIdle
    /\ file \in FileSizes
    /\ parkerBros = newParkerBros
    /\ dpcPlus = NewDPCplus(6)
    /\ mnetwork = newMnetwork
    /\ snapshot = NoSnapshot
    /\ last = NoCall
    /\ ops = 0
    /\ steps = 0

EjectedRead ==
    /\ Long("ejected")
    /\ \E addr \in EJAddrs :
          LET r == EJread(ejected, addr)
          IN  ejected' = r.cart /\ Called("read", addr, 0, FALSE, FALSE, r)
    /\ UNCHANGED <<attached, snapshot, parkerBros, dpcPlus, mnetwork>>

EjectedWrite ==
    /\ Long("ejected")
    /\ \E addr \in EJAddrs, data \in Bytes, isPoke \in BOOLEAN :
          LET r == EJwrite(ejected, addr, data, isPoke)
          IN  ejected' = r.cart /\ Called("write", addr, data, FALSE, isPoke, r)
    /\ UNCHANGED <<attached, snapshot, parkerBros, dpcPlus, mnetwork>>

EjectedSetAddressBank ==
    /\ Long("ejected")
    /\ \E addr \in EJAddrs, bank \in EJBankArgs :
          LET r == EJsetAddressBank(ejected, addr, bank)
          IN  ejected' = r.cart /\ Called("setAddressBank", addr, bank, FALSE, FALSE, r)
    /\ UNCHANGED <<attached, snapshot, parkerBros, dpcPlus, mnetwork>>

\* the outcome of a constructor: the mapper is attached on success, the
\* error is kept and nothing is attached on failure
Attached(m, r) ==
    /\ attached' = IF r.ok THEN m ELSE attached
    /\ last' = [op |-> m, addr |-> 0, data |-> 0, passive |-> FALSE, poke |-> FALSE,
                ret |-> 0, err |-> r.err]
    /\ ops' = ops + 1
    /\ UNCHANGED <<file, ejected, snapshot, steps, dsk, prefsFile, rewindVars, apart>>

LoadParkerBros ==
    /\ Long("ejected")
    /\ LET r == newParkerBrosOf(file)
       IN  parkerBros' = r.cart /\ Attached("parkerBros", r)
    /\ UNCHANGED <<dpcPlus, mnetwork>>

LoadDpcPlus ==
    /\ Long("ejected")
    /\ LET r == NewDPCplusOf(file)
       IN  dpcPlus' = r.cart /\ Attached("dpcPlus", r)
    /\ UNCHANGED <<parkerBros, mnetwork>>

LoadMnetwork ==
    /\ Long("ejected")
    /\ LET r == newMnetworkOf(file)
       IN  mnetwork' = r.cart /\ Attached("mnetwork", r)
    /\ UNCHANGED <<parkerBros, dpcPlus>>

LoadNext ==
    \/ EjectedRead
    \/ EjectedWrite
    \/ EjectedSetAddressBank
    \/ LoadParkerBros
    \/ LoadDpcPlus
    \/ LoadMnetwork

LoadSpec == LoadInit /\ [][LoadNext]_vars

(***************************************************************************)
(* The preferences: a Disk over a file of some content, preferences added  *)
(* to it, saved, loaded and looked up.                                     *)
(***************************************************************************)
MaxLines == 2
MaxPrefsOps == 3
PrefsLines ==
    {<<"a", keySep, "1">>, <<"a", keySep, "2">>, <<"b", keySep, "1">>,
     <<"c", keySep, "1", keySep, "2">>, <<"c">>}
PrefsBodies ==
    {<<>>} \cup {<<x>> : x \in PrefsLines}
           \cup {<<x, y>> : x \in PrefsLines, y \in PrefsLines}
PrefsFiles ==
    {NoFile, FileOf(<<>>)}
       \cup {FileOf(<<first>> \o body) : first \in {WarningBoilerPlate, <<"c">>},
                                          body \in {b \in PrefsBodies : Len(b) <= MaxLines}}
PrefsKeys == {<<"a">>, <<"b">>, <<"a", "1">>}

PrefsInit ==
    /\ dsk = NewDisk
    /\ prefsFile \in PrefsFiles
    /\ RewindIdle
    /\ ApartIdle
    /\ attached = "ejected"
    /\ ejected = newEjected
    /\ file = 0
    /\ parkerBros = newParkerBros
    /\ dpcPlus = NewDPCplus(6)
    /\ mnetwork = newMnetwork
    /\ snapshot = NoSnapshot
    /\ last = NoCall
    /\ ops = 0
    /\ steps = 0

PrefsCalled(op, key, flag, ret, err) ==
    /\ last' = [op |-> op, key |-> key, saveOnFirstUse |-> flag, ret |-> ret, err |-> err,
                path |-> prefsFile, entries |-> dsk.entries]
    /\ ops' = ops + 1
    /\ UNCHANGED <<attached, parkerBros, dpcPlus, mnetwork, snapshot, steps, file, ejected,
                   rewindVars, apart>>

PrefsAdd ==
    /\ ops < MaxPrefsOps
    /\ \E key \in PrefsKeys :
          LET r == DiskAdd(dsk, key, <<"9">>)
          IN  dsk' = r.dsk /\ PrefsCalled("Add", key, FALSE, FALSE, r.err)
    /\ UNCHANGED prefsFile

PrefsSave ==
    /\ ops < MaxPrefsOps
    /\ LET r == DiskSave(dsk, prefsFile)
       IN  /\ dsk' = r.dsk
           /\ prefsFile' = r.path
           /\ PrefsCalled("Save", <<>>, FALSE, FALSE, r.err)

PrefsLoad ==
    /\ ops < MaxPrefsOps
    /\ \E saveOnFirstUse \in BOOLEAN :
          LET r == DiskLoad(dsk, prefsFile, saveOnFirstUse)
          IN  /\ dsk' = r.dsk
              /\ prefsFile' = r.path
              /\ PrefsCalled("Load", <<>>, saveOnFirstUse, FALSE, r.err)

PrefsHasEntry ==
    /\ ops < MaxPrefsOps
    /\ \E key \in {<<"a">>, <<"b">>} :
          LET r == DiskHasEntry(dsk, prefsFile, key)
          IN  PrefsCalled("HasEntry", key, FALSE, r.ret, r.err)
    /\ UNCHANGED <<dsk, prefsFile>>

PrefsNext ==
    \/ PrefsAdd
    \/ PrefsSave
    \/ PrefsLoad
    \/ PrefsHasEntry

PrefsSpec == PrefsInit /\ [][PrefsNext]_vars

(***************************************************************************)
(* The rewind requests: calls of PushRewind from the GUI thread, and the   *)
(* debugger loop taking and running the pushed functions.                  *)
(***************************************************************************)
MaxPushes == 4
Frames == {1, 2}

RewindInit ==
    /\ RewindIdle
    /\ ApartIdle
    /\ dsk = NewDisk
    /\ prefsFile = NoFile
    /\ attached = "ejected"
    /\ ejected = newEjected
    /\ file = 0
    /\ parkerBros = newParkerBros
    /\ dpcPlus = NewDPCplus(6)
    /\ mnetwork = newMnetwork
    /\ snapshot = NoSnapshot
    /\ last = NoCall
    /\ ops = 0
    /\ steps = 0

notRewinding == <<attached, parkerBros, dpcPlus, mnetwork, snapshot, steps, file, ejected,
                  dsk, prefsFile, apart>>

\* PushRewind, the select: a value is sent to dbg.rewinding if it has room,
\* and true is returned if it has none
PushRewindSelect ==
    /\ pushing.pc = "idle"
    /\ ops < MaxPushes
    /\ \E fn \in Frames, l \in BOOLEAN :
          IF rewinding < RewindingCap
          THEN /\ rewinding' = rewinding + 1
               /\ pushing' = [pc |-> "push", fn |-> fn, last |-> l]
               /\ UNCHANGED <<last, ops>>
          ELSE /\ last' = [op |-> "PushRewind", fn |-> fn, last |-> l, ret |-> TRUE,
                           err |-> "nil", waiting |-> Len(events), busy |-> running.pc]
               /\ ops' = ops + 1
               /\ UNCHANGED <<rewinding, pushing>>
    /\ UNCHANGED <<events, running, scr, notRewinding>>

\* PushRewind, after the select: the function is pushed and false returned
PushRewindEvent ==
    /\ pushing.pc = "push"
    /\ events' = Append(events, [fn |-> pushing.fn, last |-> pushing.last])
    /\ pushing' = NotPushing
    /\ last' = [op |-> "PushRewind", fn |-> pushing.fn, last |-> pushing.last, ret |-> FALSE,
                err |-> "nil", waiting |-> Len(events), busy |-> running.pc]
    /\ ops' = ops + 1
    /\ UNCHANGED <<rewinding, running, scr, notRewinding>>

\* the debugger loop takes the next pushed function and starts it
RewindStart ==
    /\ running.pc = "idle"
    /\ events # <<>>
    /\ running' = IF IsGotoCoords(Head(events))
                  THEN [pc |-> "goto", scanline |-> Head(events).scanline,
                        horizpos |-> Head(events).horizpos, err |-> "nil"]
                  ELSE [pc |-> "goto", fn |-> Head(events).fn, last |-> Head(events).last,
                        err |-> "nil"]
    /\ scr' = IF IsGotoCoords(Head(events)) THEN StateGotoCoords ELSE StateRewinding
    /\ events' = Tail(events)
    /\ UNCHANGED <<rewinding, pushing, last, ops, notRewinding>>

\* GotoLast, GotoFrame or GotoFrameCoords returns, with an error or without;
\* the error is logged
RewindGoto ==
    /\ running.pc = "goto"
    /\ \E err \in {"nil", "error"} :
          running' = [running EXCEPT !.pc = "paused", !.err = err]
    /\ UNCHANGED <<rewinding, events, pushing, scr, last, ops, notRewinding>>

\* the pushed function requests the paused state and returns, and its
\* deferred function, if it has one, runs
RewindFinish ==
    /\ running.pc = "paused"
    /\ scr' = ReqFeatureAfter(scr, running.err)
    /\ rewinding' = IF IsGotoCoords(running) THEN rewinding
                    ELSE Release(rewinding, running.err)
    /\ running' = [running EXCEPT !.pc = "idle"]
    /\ UNCHANGED <<events, pushing, last, ops, notRewinding>>

RewindNext ==
    \/ PushRewindSelect
    \/ PushRewindEvent
    \/ RewindStart
    \/ RewindGoto
    \/ RewindFinish

RewindSpec == RewindInit /\ [][RewindNext]_vars

\* PushGotoCoords: the function is pushed whatever is waiting
PushGotoCoords ==
    /\ pushing.pc = "idle"
    /\ ops < MaxPushes
    /\ \E scanline \in Frames, horizpos \in {0} :
          /\ events' = Append(events, [scanline |-> scanline, horizpos |-> horizpos])
          /\ last' = [op |-> "PushGotoCoords", scanline |-> scanline, horizpos |-> horizpos,
                      err |-> "nil"]
    /\ ops' = ops + 1
    /\ UNCHANGED <<rewinding, running, pushing, scr, notRewinding>>

GotoNext ==
    \/ PushRewindSelect
    \/ PushRewindEvent
    \/ PushGotoCoords
    \/ RewindStart
    \/ RewindGoto
    \/ RewindFinish

GotoSpec == RewindInit /\ [][GotoNext]_vars

(***************************************************************************)
(* The music fetchers: waveforms and notes are written, the music clock    *)
(* runs, and the amplitude register is read.                               *)
(***************************************************************************)
MaxWaves == 2
Waves == {66, 127, 255}

WaveWrite ==
    /\ attached = "dpcPlus" /\ steps = 0 /\ ops < MaxWaves
    /\ \E w \in ((93..95) \X Waves) \cup ((117..119) \X {66}) :
          LET r == DPCWrite(dpcPlus, w[1], w[2], FALSE, FALSE)
          IN  dpcPlus' = r.cart /\ Called("Write", w[1], w[2], FALSE, FALSE, r)
    /\ UNCHANGED <<attached, snapshot, parkerBros, mnetwork>>

WaveStep ==
    /\ attached = "dpcPlus" /\ steps < MaxSteps /\ last.op # "Read"
    /\ dpcPlus' = DPCStep(dpcPlus)
    /\ Called("Step", 0, 0, FALSE, FALSE, Ret(dpcPlus, 0, "nil"))
    /\ UNCHANGED <<attached, snapshot, parkerBros, mnetwork>>

WaveRead ==
    /\ attached = "dpcPlus" /\ last.op # "Read"
    /\ LET r == DPCRead(dpcPlus, 5, FALSE)
       IN  dpcPlus' = r.cart /\ Called("Read", 5, 0, FALSE, FALSE, r)
    /\ UNCHANGED <<attached, snapshot, parkerBros, mnetwork>>

WaveNext ==
    \/ WaveWrite
    \/ WaveStep
    \/ WaveRead

WaveSpec == Init /\ [][WaveNext]_vars

(***************************************************************************)
(* The feature requests: the goroutines calling SetFeature,                *)
(* SetFeatureNoError and GetFeature, the goroutines SetFeatureNoError      *)
(* starts, and the service loop.                                           *)
(***************************************************************************)
MaxCalls == 2
Caps == {0, 1}
SetRequests == {ReqState, ReqSavePrefs, ReqOther}
GetRequests == {ReqState, ReqOther}
SaveErrs == {NilErr, <<"save">>}

shelved == <<attached, parkerBros, dpcPlus, mnetwork, snapshot, last, ops, steps,
             file, ejected, dsk, prefsFile, rewindVars>>

\* no cartridge is attached and nothing was pushed
Shelved ==
    /\ RewindIdle
    /\ dsk = NewDisk
    /\ prefsFile = NoFile
    /\ attached = "ejected"
    /\ ejected = newEjected
    /\ file = 0
    /\ parkerBros = newParkerBros
    /\ dpcPlus = NewDPCplus(6)
    /\ mnetwork = newMnetwork
    /\ snapshot = NoSnapshot
    /\ last = NoCall
    /\ ops = 0
    /\ steps = 0

FeatureInit ==
    /\ Shelved
    /\ img \in {NewSdlImgui(cap) : cap \in Caps}
    /\ rsz = NoResizer
    /\ regression = NoRegression
    /\ dpcState = NoState

\* a call that has sent its request; alone tells that every earlier call had
\* returned by then, as it has when one goroutine makes all the calls
NewCall(kind, request) ==
    [kind |-> kind, request |-> request, pc |-> "sent", data |-> NoReply, got |-> NoReply,
     saved |-> NilErr, answers |-> <<>>, serviced |-> FALSE,
     alone |-> \A c \in 1..Len(img.calls) : img.calls[c].pc = "done" /\ img.calls[c].alone]

Imgui(new) ==
    /\ img' = new
    /\ UNCHANGED <<shelved, rsz, regression, dpcState>>

\* SetFeature, the send
SetFeature ==
    /\ Len(img.calls) < MaxCalls
    /\ Room(img.featureSet, img.cap)
    /\ \E request \in SetRequests :
          Imgui([img EXCEPT !.calls = Append(@, NewCall("SetFeature", request)),
                            !.featureSet = Append(@, [id |-> Len(img.calls) + 1,
                                                      request |-> request])])

\* SetFeature, the receive and the return
SetFeatureReturn ==
    \E c \in 1..Len(img.calls) :
       /\ img.calls[c].kind = "SetFeature"
       /\ img.calls[c].pc = "sent"
       /\ Sent(img.featureSet, img.cap, c)
       /\ img.featureSetErr # <<>>
       /\ Imgui([img EXCEPT !.calls[c].pc = "done",
                            !.calls[c].got = Head(img.featureSetErr),
                            !.featureSetErr = Tail(@)])

\* SetFeatureNoError, the send
SetFeatureNoError ==
    /\ Len(img.calls) < MaxCalls
    /\ Room(img.featureSet, img.cap)
    /\ \E request \in SetRequests :
          Imgui([img EXCEPT !.calls = Append(@, NewCall("SetFeatureNoError", request)),
                            !.featureSet = Append(@, [id |-> Len(img.calls) + 1,
                                                      request |-> request])])

\* SetFeatureNoError, the go statement and the return
SetFeatureNoErrorReturn ==
    \E c \in 1..Len(img.calls) :
       /\ img.calls[c].kind = "SetFeatureNoError"
       /\ img.calls[c].pc = "sent"
       /\ Sent(img.featureSet, img.cap, c)
       /\ Imgui([img EXCEPT !.calls[c].pc = "done", !.drains = @ + 1])

\* the goroutine SetFeatureNoError started
Drain ==
    /\ img.drains > 0
    /\ img.featureSetErr # <<>>
    /\ Imgui([img EXCEPT !.drains = @ - 1, !.featureSetErr = Tail(@)])

\* GetFeature, the send
GetFeature ==
    /\ Len(img.calls) < MaxCalls
    /\ Room(img.featureGet, img.cap)
    /\ \E request \in GetRequests :
          Imgui([img EXCEPT !.calls = Append(@, NewCall("GetFeature", request)),
                            !.featureGet = Append(@, [id |-> Len(img.calls) + 1,
                                                      request |-> request])])

\* GetFeature, the receive from featureGetData
GetFeatureData ==
    \E c \in 1..Len(img.calls) :
       /\ img.calls[c].kind = "GetFeature"
       /\ img.calls[c].pc = "sent"
       /\ Sent(img.featureGet, img.cap, c)
       /\ img.featureGetData # <<>>
       /\ Imgui([img EXCEPT !.calls[c].pc = "data",
                            !.calls[c].data = Head(img.featureGetData),
                            !.featureGetData = Tail(@)])

\* GetFeature, the receive from featureGetErr and the return
GetFeatureReturn ==
    \E c \in 1..Len(img.calls) :
       /\ img.calls[c].kind = "GetFeature"
       /\ img.calls[c].pc = "data"
       /\ img.featureGetErr # <<>>
       /\ Imgui([img EXCEPT !.calls[c].pc = "done",
                            !.calls[c].got = Head(img.featureGetErr),
                            !.featureGetErr = Tail(@)])

\* the service loop is back from the handler it called
Serviced ==
    /\ img.svc.pc = "idle"
    /\ img.cap = 0 => img.featureSetErr = <<>> /\ img.featureGetErr = <<>>

\* the service loop takes a request from featureSet
ServiceSet ==
    /\ Serviced
    /\ img.featureSet # <<>>
    /\ Imgui([img EXCEPT !.featureSet = Tail(@),
                         !.svc = [pc |-> "set", id |-> Head(img.featureSet).id,
                                  request |-> Head(img.featureSet).request]])

\* the service loop takes a request from featureGet
ServiceGet ==
    /\ Serviced
    /\ img.featureGet # <<>>
    /\ Imgui([img EXCEPT !.featureGet = Tail(@),
                         !.svc = [pc |-> "get", id |-> Head(img.featureGet).id,
                                  request |-> Head(img.featureGet).request]])

serviceSetFeature ==
    /\ img.svc.pc = "set"
    /\ \E saved \in IF img.svc.request = ReqSavePrefs THEN SaveErrs ELSE {NilErr} :
          LET id == img.svc.id
              replies == SetReplies(serviceSetFeatureErr(img.svc.request, saved))
          IN  /\ replies = <<>> \/ Room(img.featureSetErr, img.cap)
              /\ Imgui([img EXCEPT
                          !.state = IF img.svc.request = ReqState THEN StateRewinding ELSE @,
                          !.featureSetErr =
                              @ \o [i \in 1..Len(replies) |-> [id |-> id, val |-> replies[i]]],
                          !.calls[id].answers =
                              @ \o [i \in 1..Len(replies) |->
                                       [ch |-> "featureSetErr", val |-> replies[i]]],
                          !.calls[id].saved = saved,
                          !.calls[id].serviced = TRUE,
                          !.svc = NoService])

\* serviceGetFeature, the send on featureGetData
serviceGetFeatureData ==
    /\ img.svc.pc = "get"
    /\ Room(img.featureGetData, img.cap)
    /\ LET id == img.svc.id
           data == GetData(img.svc.request, img.state)
       IN  Imgui([img EXCEPT
                     !.featureGetData = Append(@, [id |-> id, val |-> data]),
                     !.calls[id].answers = Append(@, [ch |-> "featureGetData", val |-> data]),
                     !.svc.pc = "geterr"])

\* serviceGetFeature, the send on featureGetErr
serviceGetFeatureErr ==
    /\ img.svc.pc = "geterr"
    /\ Sent(img.featureGetData, img.cap, img.svc.id)
    /\ Room(img.featureGetErr, img.cap)
    /\ LET id == img.svc.id
           err == GetErr(img.svc.request)
       IN  Imgui([img EXCEPT
                     !.featureGetErr = Append(@, [id |-> id, val |-> err]),
                     !.calls[id].answers = Append(@, [ch |-> "featureGetErr", val |-> err]),
                     !.calls[id].serviced = TRUE,
                     !.svc = NoService])

FeatureNext ==
    \/ SetFeature
    \/ SetFeatureReturn
    \/ SetFeatureNoError
    \/ SetFeatureNoErrorReturn
    \/ Drain
    \/ GetFeature
    \/ GetFeatureData
    \/ GetFeatureReturn
    \/ ServiceSet
    \/ ServiceGet
    \/ serviceSetFeature
    \/ serviceGetFeatureData
    \/ serviceGetFeatureErr

FeatureSpec == FeatureInit /\ [][FeatureNext]_vars

\* every goroutine that can take a step is given one in the end, and the
\* service loop keeps servicing
FeatureLive ==
    /\ FeatureSpec
    /\ WF_vars(SetFeatureReturn)
    /\ WF_vars(SetFeatureNoErrorReturn)
    /\ WF_vars(Drain)
    /\ WF_vars(GetFeatureData)
    /\ WF_vars(GetFeatureReturn)
    /\ WF_vars(ServiceSet)
    /\ WF_vars(ServiceGet)
    /\ WF_vars(serviceSetFeature)
    /\ WF_vars(serviceGetFeatureData)
    /\ WF_vars(serviceGetFeatureErr)

(***************************************************************************)
(* Properties.                                                             *)
(***************************************************************************)
\* the addresses the properties are evaluated at in every state
PBCheckAddrs == PBAddrs \cup PBHotspots \cup {0, 1023, 1024, 2047, 2048, 3071, 3072, 4095}
DPCCheckAddrs == DPCReadAddrs \cup DPCWriteAddrs \cup DPCHotspots
                    \cup {1, 2, 48, 72, 104, 112, 127, 4095}
MNCheckAddrs == MNAddrs \cup MNHotspots \cup {2303, 2559, 4087, 4095}

\* C1: a passive Read and a passive non-poke Write leave the bank selection
\* that GetBank reports unchanged, at every address, hotspots included, in
\* every reachable state of the parkerBros and of the dpcPlus mapper.
PassiveKeepsSelection ==
    /\ attached = "parkerBros" =>
          \A addr \in PBCheckAddrs :
             LET r == PBRead(parkerBros, addr, TRUE).cart
                 w == PBWrite(parkerBros, addr, 66, TRUE, FALSE).cart
             IN  \A a \in {0, 1024, 2048, 3072} :
                    /\ PBGetBank(r, a) = PBGetBank(parkerBros, a)
                    /\ PBGetBank(w, a) = PBGetBank(parkerBros, a)
    /\ attached = "dpcPlus" =>
          \A addr \in DPCCheckAddrs :
             /\ DPCGetBank(DPCRead(dpcPlus, addr, TRUE).cart, addr) = DPCGetBank(dpcPlus, addr)
             /\ DPCGetBank(DPCWrite(dpcPlus, addr, 66, TRUE, FALSE).cart, addr)
                   = DPCGetBank(dpcPlus, addr)

\* a passive access of hotspot B0S0 has been made with bank 7 in segment 0
PassiveKeepsSelectionWitness ==
    /\ attached = "parkerBros"
    /\ last.op \in {"Read", "Write"} /\ last.passive /\ ~last.poke /\ last.addr = 4064
    /\ parkerBros.segment[0] = 7

\* C2: a passive Read or a passive non-poke Write of the dpcPlus mapper
\* leaves the whole mapper state unchanged.
PassiveKeepsDpcPlusState ==
    [][(attached = "dpcPlus" /\ last'.op \in {"Read", "Write"} /\ last'.passive /\ ~last'.poke)
          => dpcPlus' = dpcPlus]_vars

\* C3: an active Read or Write at hotspot 0xfe0 + 8s + b sets segment s to
\* bank b and no other segment; a Read of an address of segment s then
\* returns the byte of bank b at the address's offset in the segment.
HotspotSelectsBank ==
    attached = "parkerBros" =>
       \A s \in 0..2, b \in 0..7 :
          \A c \in {PBRead(parkerBros, 4064 + 8 * s + b, FALSE).cart}
                \cup {PBWrite(parkerBros, 4064 + 8 * s + b, 66, FALSE, poke).cart :
                         poke \in BOOLEAN} :
             /\ c.segment = [parkerBros.segment EXCEPT ![s] = b]
             /\ \A o \in {5, 34, 1023} :
                   PBRead(c, s * 1024 + o, FALSE) = Ret(c, PBbank(c, b, o), "nil")

\* an active write to hotspot B4S1 has put bank 4 in segment 1
HotspotSelectsBankWitness ==
    /\ attached = "parkerBros"
    /\ last.op = "Write" /\ ~last.passive /\ last.addr = 4076
    /\ parkerBros.segment[1] = 4

\* C4: the last segment is the last bank in every reachable state:
\* parkerBros segment[3] = 7; mnetwork reads of 0x800..0xfff outside the RAM
\* read port return the byte of bank 7, getBank there is 7 and setBank there
\* changes nothing.
LastSegmentIsLastBank ==
    /\ attached = "parkerBros" =>
          /\ parkerBros.segment[3] = 7
          /\ \A a \in {a \in PBCheckAddrs : a >= 3072} : PBGetBank(parkerBros, a).Number = 7
    /\ attached = "mnetwork" =>
          \A a \in {a \in MNCheckAddrs : a >= 2048 /\ a <= 4095 /\ ~(a >= 2304 /\ a <= 2559)} :
             /\ LET r == MNread(mnetwork, a)
                IN  r.data = MNbank(7, a % 2048) /\ r.err = "nil"
             /\ MNgetBank(mnetwork, a) = 7
             /\ \A bank \in MNBankArgs : MNsetBank(mnetwork, a, bank).cart = mnetwork

\* an active write just above the hotspots was made after segment 2 was switched
LastSegmentIsLastBankWitness ==
    /\ attached = "parkerBros"
    /\ last.op = "Write" /\ ~last.passive /\ last.addr = 4088
    /\ parkerBros.segment[2] = 7
    /\ parkerBros.segment[3] = 7

\* C5: the bank selected in the dpcPlus mapper is a bank of the cartridge.
DpcPlusBankInRange ==
    attached = "dpcPlus" => dpcPlus.bank >= 0 /\ dpcPlus.bank < dpcPlus.numBanks

\* C6: in the mnetwork mapper lowerSegment is in 0..7 and the RAM page
\* upperSegment is in 0..3, whatever read, write and setBank calls were made.
MnetworkSegmentsInRange ==
    attached = "mnetwork" =>
       mnetwork.lowerSegment \in 0..7 /\ mnetwork.upperSegment \in 0..3

RomWriteFaults ==
    /\ attached = "parkerBros" =>
          \A addr \in PBCheckAddrs \ PBHotspots :
             PBWrite(parkerBros, addr, 255, FALSE, FALSE) = Ret(parkerBros, 0, "AddressError")
    /\ attached = "dpcPlus" =>
          \A addr \in {a \in DPCCheckAddrs \ DPCHotspots : a > 127} :
             LET w == DPCWrite(dpcPlus, addr, 255, FALSE, FALSE)
             IN  /\ w.err = "AddressError"
                 /\ w.cart.banks = dpcPlus.banks
                 /\ w.cart.bank = dpcPlus.bank

\* an active non-poke write to ROM was refused after a bank was poked
RomWriteFaultsWitness ==
    /\ attached = "parkerBros"
    /\ last.op = "Write" /\ ~last.passive /\ ~last.poke /\ last.addr = 34
    /\ last.err = "AddressError"
    /\ parkerBros.banks # NoCells

\* C10: a poke write to a ROM address that is no hotspot returns no error,
\* in the parkerBros and in the dpcPlus mapper.
PokeSucceeds ==
    /\ (attached = "parkerBros" /\ last.op = "Write" /\ last.poke
           /\ last.addr <= 4095 /\ last.addr \notin PBHotspots)
          => last.err = "nil"
    /\ (attached = "dpcPlus" /\ last.op = "Write" /\ last.poke
           /\ last.addr >= 128 /\ last.addr <= 4095 /\ last.addr \notin DPCHotspots)
          => last.err = "nil"

\* C11: a passive poke write of v at a ROM address that is no hotspot is read
\* back by a passive Read of the same address, and the cartridge differs from
\* the one before the poke in the poked byte of the selected bank only
\* (offset a & 0x3ff of the segment's bank in parkerBros, offset a of the
\* selected bank in dpcPlus).
PokeRoundTrips ==
    /\ attached = "parkerBros" =>
          \A a \in {a \in PBCheckAddrs \ PBHotspots : a <= 4095}, v \in Bytes :
             LET w == PBWrite(parkerBros, a, v, TRUE, TRUE).cart
                 k == parkerBros.segment[PBsegmentOf(a)]
                 o == Mask(a, 1024)
             IN  /\ PBRead(w, a, TRUE).data = v
                 /\ w = [parkerBros EXCEPT !.banks =
                            Store(parkerBros.banks, <<k, o>>, v, PBImage(k * PBbankSize + o))]
    /\ (attached = "dpcPlus" /\ dpcPlus.bank < dpcPlus.numBanks) =>
          \A a \in {a \in DPCCheckAddrs \ DPCHotspots : a > 127 /\ a <= 4095}, v \in Bytes :
             LET w == DPCWrite(dpcPlus, a, v, TRUE, TRUE).cart
             IN  /\ DPCRead(w, a, TRUE).data = v
                 /\ w.banks = Store(dpcPlus.banks, <<dpcPlus.bank, a>>, v,
                                    DPCbank(NewDPCplus(dpcPlus.numBanks), dpcPlus.bank, a))

\* C12: an active Read of hotspot 0xff6 + n returns 0 and no error, an active
\* Write to it returns no error, and both select bank n and change nothing
\* else of the mapper: no register, no bank byte.
DpcPlusHotspotSwitches ==
    attached = "dpcPlus" =>
       \A n \in 0..5 :
          /\ DPCRead(dpcPlus, 4086 + n, FALSE) = Ret([dpcPlus EXCEPT !.bank = n], 0, "nil")
          /\ \A poke \in BOOLEAN, v \in {0, 66} :
                DPCWrite(dpcPlus, 4086 + n, v, FALSE, poke)
                   = Ret([dpcPlus EXCEPT !.bank = n], 0, "nil")

\* an active read of hotspot 0xff6 has selected bank 0 of a six-bank cartridge
\* whose fast fetch mode had been switched on
DpcPlusHotspotSwitchesWitness ==
    /\ attached = "dpcPlus" /\ dpcPlus.numBanks = 6
    /\ last.op = "Read" /\ ~last.passive /\ last.addr = 4086
    /\ last.ret = 0 /\ last.err = "nil"
    /\ dpcPlus.bank = 0
    /\ dpcPlus.registers.FastFetch

\* C13: every call of Read ends, and Read is entered again at most once in
\* it: exactly when the call reads a ROM byte below 0x28 with the fast fetch
\* mode on and the lda flag set; the flag is then found reset.
ReadReentersOnce ==
    attached = "dpcPlus" =>
       \A a \in DPCCheckAddrs, passive \in BOOLEAN :
          LET r == DPCReadFrom(dpcPlus, a, passive, 0)
              reenters == /\ a > 127 /\ a \notin DPCHotspots
                          /\ dpcPlus.bank < dpcPlus.numBanks
                          /\ dpcPlus.registers.FastFetch /\ dpcPlus.lda
                          /\ DPCbank(dpcPlus, dpcPlus.bank, a) < 40
          IN  /\ r.err # "stack overflow"
              /\ r.entered = IF reenters THEN 2 ELSE 1
              /\ reenters => ~r.cart.lda

\* the operand 0x08 of an lda was fetched in fast fetch mode and answered by
\* data fetcher 0, which has advanced
ReadReentersOnceWitness ==
    /\ attached = "dpcPlus"
    /\ last.op = "Read" /\ last.addr = 257 /\ last.err = "nil" /\ last.ret # 8
    /\ dpcPlus.registers.FastFetch /\ ~dpcPlus.lda
    /\ dpcPlus.registers.Fetcher[0].Low = 1

\* C14: a Read of a ROM address whose byte d is below 0x28 is answered with
\* the read of register d exactly when the fast fetch mode is on and the
\* access made just before it was a Read of ROM that returned 0xa9; in every
\* other case (another access in between, or the mode off) it returns d and
\* changes no register.
FastFetchIntercepts ==
    [][(/\ attached = "dpcPlus"
        /\ last'.op = "Read" /\ last'.addr > 127 /\ last'.addr \notin DPCHotspots
        /\ dpcPlus.bank < dpcPlus.numBanks
        /\ DPCbank(dpcPlus, dpcPlus.bank, last'.addr) < 40)
          => LET d == DPCbank(dpcPlus, dpcPlus.bank, last'.addr)
                 preceded == /\ last.op = "Read" /\ last.addr > 127
                             /\ last.addr \notin DPCHotspots
                             /\ last.err = "nil" /\ last.ret = 169
                 register == DPCreadRegister([dpcPlus EXCEPT !.lda = FALSE], d)
             IN  IF dpcPlus.registers.FastFetch /\ preceded
                 THEN /\ dpcPlus' = register.cart
                      /\ last'.ret = register.data /\ last'.err = register.err
                 ELSE /\ dpcPlus'.registers = dpcPlus.registers
                      /\ last'.ret = d /\ last'.err = "nil"]_vars

\* C15: an active read of the windowed data fetcher register 0x10 + f returns
\* no error and the display data byte at the fetcher's 12-bit pointer when
\* the pointer is in the fetcher's window, 0 when it is not; either way the
\* pointer of fetcher f advances by one and nothing else of the mapper
\* changes.
WindowedFetcherReads ==
    attached = "dpcPlus" =>
       \A f \in 0..7 :
          LET df == dpcPlus.registers.Fetcher[f]
              r == DPCRead(dpcPlus, 16 + f, FALSE)
          IN  /\ r.err = "nil"
              /\ r.data = IF DFisWindow(df) THEN DPCData(dpcPlus, DFpointer(df)) ELSE 0
              /\ r.cart = [dpcPlus EXCEPT !.registers.Fetcher[f] = DFinc(df)]
              /\ DFpointer(r.cart.registers.Fetcher[f]) = (DFpointer(df) + 1) % 4096

\* data fetcher 0 was read through its windowed register with its pointer
\* above the window [0, 0]: the read returned 0 and the pointer is now 2
WindowedFetcherReadsWitness ==
    /\ attached = "dpcPlus"
    /\ last.op = "Read" /\ last.addr = 16 /\ ~last.passive
    /\ last.ret = 0 /\ last.err = "nil"
    /\ dpcPlus.registers.Fetcher[0] = [Low |-> 2, Hi |-> 0, Top |-> 0, Bottom |-> 0]

\* k * w, wrapping at 2^32
RECURSIVE W32times(_, _)
W32times(k, w) == IF k = 0 THEN W32zero ELSE W32add(W32times(k - 1, w), w)

\* C16: with the notes set before the first Step, after n calls of Step
\* beats is n mod 59 (so within 0..58) and the count of every music fetcher
\* is floor(n / 59) times its frequency, modulo 2^32; a call of Step changes
\* beats and the three counts and nothing else.
StepDividesBy59 ==
    attached = "dpcPlus" =>
       /\ dpcPlus.beats = steps % 59
       /\ dpcPlus.beats \in 0..58
       /\ \A m \in 0..2 :
             dpcPlus.registers.MusicFetcher[m].Count
                = W32times(steps \div 59, dpcPlus.registers.MusicFetcher[m].Freq)
       /\ LET n == DPCStep(dpcPlus)
          IN  [n EXCEPT !.beats = dpcPlus.beats,
                        !.registers.MusicFetcher =
                            [m \in 0..2 |->
                                [n.registers.MusicFetcher[m] EXCEPT
                                    !.Count = dpcPlus.registers.MusicFetcher[m].Count]]]
                 = dpcPlus

\* 118 calls of Step were made with a frequency of music fetcher 0 of 2^31
\* or more: its count has advanced twice and has wrapped
StepDividesBy59Witness ==
    /\ attached = "dpcPlus"
    /\ last.op = "Step" /\ steps = 118
    /\ dpcPlus.beats = 0
    /\ dpcPlus.registers.MusicFetcher[0].Freq[1] >= 32768
    /\ dpcPlus.registers.MusicFetcher[0].Count[1] < 32768
    /\ dpcPlus.registers.MusicFetcher[0].Count # W32zero

\* C17: Patch at an offset at or beyond the size of the image (8192 for
\* parkerBros, fileSize for dpcPlus) returns an error and leaves the whole
\* mapper as it was: banks, display data, frequencies, ARM program, selection.
PatchBeyondImageRejected ==
    /\ attached = "parkerBros" =>
          \A offset \in {8192, 8193, 12288, 65536}, v \in {0, 66} :
             PBPatch(parkerBros, offset, v) = Ret(parkerBros, 0, "PatchError")
    /\ attached = "dpcPlus" =>
          \A beyond \in {0, 1, 4096, 65536}, v \in {0, 66} :
             DPCPatch(dpcPlus, DPCfileSize(dpcPlus) + beyond, v)
                = Ret(dpcPlus, 0, "PatchError")

\* the last byte of a DPC+ image was patched, then a patch at the offset
\* behind it was refused
PatchBeyondImageRejectedWitness ==
    /\ attached = "dpcPlus"
    /\ last.op = "Patch" /\ last.addr = DPCfileSize(dpcPlus) /\ last.err = "PatchError"
    /\ DPCFreq(dpcPlus, freqSize - 1) = 66
    /\ DPCFreq(NewDPCplus(dpcPlus.numBanks), freqSize - 1) # 66

\* C18: Patch of the dpcPlus mapper at a file offset inside the image returns
\* no error and sets the byte the loader placed at that offset of the file
\* (of the ARM program, of a bank, of the display data or of the frequency
\* table), leaving the byte of every other offset and the selected bank as
\* they were.
DpcPlusPatchSetsFileByte ==
    attached = "dpcPlus" =>
       LET inside == {o \in DPCOffsets(dpcPlus) : o >= 0 /\ o < DPCfileSize(dpcPlus)}
       IN  \A offset \in inside, v \in Bytes :
              LET r == DPCPatch(dpcPlus, offset, v)
              IN  /\ r.err = "nil"
                  /\ DPCfileByte(r.cart, offset) = v
                  /\ \A other \in inside \ {offset} :
                        DPCfileByte(r.cart, other) = DPCfileByte(dpcPlus, other)
                  /\ r.cart.bank = dpcPlus.bank
                  /\ r.cart.registers = dpcPlus.registers

\* C19: Patch of the parkerBros mapper at an offset in 0..8191 returns no
\* error, sets byte offset % 1024 of bank offset / 1024 and changes no other
\* byte and no segment, whatever banks are selected; once the bank is
\* switched into a segment (also after another bank was there) a read at
\* the byte's address in that segment returns the patched byte, and in every
\* reachable state every byte patched so far is read at its address in each
\* segment that holds its bank.
PatchSetsBankByte ==
    attached = "parkerBros" =>
       /\ \A offset \in {0, 10, 1023, 1024, 1034, 3077, 7168, 8191}, v \in {0, 66} :
             LET r == PBPatch(parkerBros, offset, v)
                 k == offset \div 1024
                 o == offset % 1024
             IN  /\ r.err = "nil"
                 /\ r.cart = [parkerBros EXCEPT !.banks =
                                 Store(parkerBros.banks, <<k, o>>, v, PBImage(offset))]
                 /\ PBbank(r.cart, k, o) = v
                 /\ \A s \in 0..2 :
                       LET away == PBRead(r.cart, 4064 + 8 * s + ((k + 1) % 8), FALSE).cart
                           back == PBRead(away, 4064 + 8 * s + k, FALSE).cart
                       IN  /\ back.banks = r.cart.banks
                           /\ back.segment[s] = k
                           /\ PBRead(back, s * 1024 + o, TRUE).data = v
                 /\ k = 7 => PBRead(r.cart, 3072 + o, TRUE).data = v
       /\ \A cell \in DOMAIN parkerBros.banks, s \in 0..3 :
             parkerBros.segment[s] = cell[1] =>
                PBRead(parkerBros, s * 1024 + cell[2], TRUE).data = parkerBros.banks[cell]

\* offset 10 was patched to 0x42 while bank 4 was in segment 0; bank 0 was
\* then switched into segment 0 and address 10 read: the read returned 0x42
PatchSetsBankByteWitness ==
    /\ attached = "parkerBros"
    /\ last.op = "Read" /\ last.addr = 10 /\ last.ret = 66 /\ last.err = "nil"
    /\ parkerBros.segment[0] = 0
    /\ PBImage(10) # 66
    /\ DOMAIN parkerBros.banks = {<<0, 10>>}

\* C20: after restoreState is given what saveState returned, lowerSegment,
\* upperSegment, ramLower and ramUpper of the mnetwork mapper are what they
\* were when saveState was called, whatever reads and writes were made in
\* between, and so is every byte then read.
RestoreReturnsSavedState ==
    (attached = "mnetwork" /\ last.op = "restoreState") =>
       /\ mnetwork.lowerSegment = snapshot.of.lowerSegment
       /\ mnetwork.upperSegment = snapshot.of.upperSegment
       /\ mnetwork.ramLower = snapshot.of.ramLower
       /\ mnetwork.ramUpper = snapshot.of.ramUpper
       /\ \A a \in LongMNReadAddrs :
             MNread(mnetwork, a).data = MNread(snapshot.of, a).data

\* C21: in every state reached by hotspot accesses, for every cartridge
\* address the bank that GetBank reports there is one of the banks CopyBanks
\* copies, and the base of the address's segment (relative to the cartridge
\* origin) is one of the Origins listed for that bank; parkerBros banks 0..6
\* list the three switchable segments and bank 7 all four, every dpcPlus bank
\* lists the one window.
OriginsCoverPlacements ==
    /\ attached = "parkerBros" =>
          /\ \A a \in {a \in PBCheckAddrs : a <= 4095} :
                LET g == PBGetBank(parkerBros, a)
                IN  /\ g.Number \in DOMAIN PBCopyBanks(parkerBros)
                    /\ g.Segment * PBbankSize \in PBCopyBanks(parkerBros)[g.Number].Origins
          /\ \A b \in 0..6 : PBCopyBanks(parkerBros)[b].Origins = {0, 1024, 2048}
          /\ PBCopyBanks(parkerBros)[7].Origins = {0, 1024, 2048, 3072}
    /\ attached = "dpcPlus" =>
          \A a \in {a \in DPCCheckAddrs : a <= 4095} :
             LET g == DPCGetBank(dpcPlus, a)
             IN  /\ g.Number \in DOMAIN DPCCopyBanks(dpcPlus)
                 /\ DPCCopyBanks(dpcPlus)[g.Number].Origins = {0}

\* C22: an active Read (Write) of every address that ReadHotspots
\* (WriteHotspots) lists with the bank-switch action selects the bank, and
\* for parkerBros the segment, that the symbol names; an access of an
\* address that the table does not list changes no bank selection.
HotspotTablesMatch ==
    /\ attached = "parkerBros" =>
          /\ \A a \in DOMAIN PBReadHotspots :
                PBReadHotspots[a].Action = "HotspotBankSwitch" =>
                   PBRead(parkerBros, a, FALSE).cart.segment
                      = [parkerBros.segment EXCEPT
                            ![PBReadHotspots[a].Symbol.segment] = PBReadHotspots[a].Symbol.bank]
          /\ \A a \in DOMAIN PBWriteHotspots :
                PBWriteHotspots[a].Action = "HotspotBankSwitch" =>
                   PBWrite(parkerBros, a, 66, FALSE, FALSE).cart.segment
                      = [parkerBros.segment EXCEPT
                            ![PBWriteHotspots[a].Symbol.segment] = PBWriteHotspots[a].Symbol.bank]
          /\ \A a \in PBCheckAddrs \ DOMAIN PBReadHotspots :
                PBRead(parkerBros, a, FALSE).cart.segment = parkerBros.segment
          /\ \A a \in PBCheckAddrs \ DOMAIN PBWriteHotspots :
                PBWrite(parkerBros, a, 66, FALSE, FALSE).cart.segment = parkerBros.segment
    /\ attached = "dpcPlus" =>
          /\ \A a \in DOMAIN DPCReadHotspots :
                DPCReadHotspots[a].Action = "HotspotBankSwitch" =>
                   DPCRead(dpcPlus, a, FALSE).cart.bank = DPCReadHotspots[a].Symbol.bank
          /\ \A a \in DOMAIN DPCWriteHotspots :
                DPCWriteHotspots[a].Action = "HotspotBankSwitch" =>
                   DPCWrite(dpcPlus, a, 66, FALSE, FALSE).cart.bank
                      = DPCWriteHotspots[a].Symbol.bank
          /\ \A a \in DPCCheckAddrs \ DOMAIN DPCReadHotspots :
                DPCRead(dpcPlus, a, FALSE).cart.bank = dpcPlus.bank
          /\ \A a \in DPCCheckAddrs \ DOMAIN DPCWriteHotspots :
                DPCWrite(dpcPlus, a, 66, FALSE, FALSE).cart.bank = dpcPlus.bank

\* C23: while no cartridge is attached every read has returned 0 with the
\* cartridge-ejected error, every write, poke or not, the cartridge-ejected
\* error, every setAddressBank an error; numBanks is 0; the ejected mapper
\* is as it was constructed; and no call has ended the session, so that a
\* further access is still possible.
EjectedReportsEjected ==
    attached = "ejected" =>
       /\ ejected = newEjected
       /\ EJnumBanks(ejected) = 0
       /\ last.op = "read" => last.ret = 0 /\ last.err = "CartridgeEjected"
       /\ last.op = "write" => last.err = "CartridgeEjected"
       /\ last.op = "setAddressBank" => last.err \notin {"nil", "panic"}
       /\ last.err # "panic"
       /\ \A addr \in EJAddrs :
             /\ EJread(ejected, addr) = Ret(ejected, 0, "CartridgeEjected")
             /\ \A isPoke \in BOOLEAN :
                   EJwrite(ejected, addr, 66, isPoke) = Ret(ejected, 0, "CartridgeEjected")
             /\ \A bank \in EJBankArgs :
                   /\ EJsetAddressBank(ejected, addr, bank).err # "nil"
                   /\ EJsetAddressBank(ejected, addr, bank).cart = ejected

EjectedReportsEjectedWitness ==
    /\ attached = "ejected"
    /\ ops = 3
    /\ last.op = "write" /\ last.poke
    /\ last.err = "CartridgeEjected"

\* C24: newParkerBros succeeds exactly for a file of 8 * 1024 bytes and
\* NewDPCplus exactly when the length less 3072 + 4096 + 1024 is a positive
\* multiple of 4096; after a success bank k holds the file's bytes in order
\* (parkerBros from 1024k, dpcPlus from 3072 + 4096k, then 4096 bytes of data
\* and 1024 bytes of frequencies that end the file); after a failure no
\* mapper is attached.
LoadChecksSize ==
    /\ last.op = "parkerBros" =>
          /\ (last.err = "nil") = (file = 8 * 1024)
          /\ (attached = "parkerBros") = (last.err = "nil")
          /\ last.err = "nil" =>
                \A k \in 0..7 : \A o \in {0, 1, 1023} :
                   PBbank(parkerBros, k, o) = PBImage(1024 * k + o)
    /\ last.op = "dpcPlus" =>
          LET bankLen == file - 3072 - 4096 - 1024
              n == dpcPlus.numBanks
          IN  /\ (last.err = "nil")
                    = (bankLen > 0 /\ \E m \in 1..MaxFile : bankLen = 4096 * m)
              /\ (attached = "dpcPlus") = (last.err = "nil")
              /\ last.err = "nil" =>
                    /\ bankLen = 4096 * n
                    /\ \A k \in 0..(n - 1) : \A a \in {0, 256, 4095} :
                          DPCbank(dpcPlus, k, a) = DPCImage(n, 3072 + 4096 * k + a)
                    /\ \A j \in {0, 4095} :
                          DPCData(dpcPlus, j) = DPCImage(n, 3072 + 4096 * n + j)
                    /\ \A j \in {0, 1023} :
                          DPCFreq(dpcPlus, j) = DPCImage(n, 3072 + 4096 * n + 4096 + j)
                    /\ 3072 + 4096 * n + 4096 + 1024 = file

LoadChecksSizeWitness ==
    /\ attached = "dpcPlus"
    /\ last.op = "dpcPlus"
    /\ dpcPlus.numBanks = 6
    /\ file = 32768

\* C25: newMnetwork returns a mapper only for a file of exactly eight banks
\* of 2048 bytes: a shorter and a longer file both give an error.
MnetworkRejectsWrongSize ==
    last.op = "mnetwork" =>
       /\ (last.err = "nil") = (file = 8 * 2048)
       /\ (attached = "mnetwork") = (last.err = "nil")

\* C26: right after the load and right after every Initialise the mapper
\* is in its start configuration, the last bank in the last segment:
\* parkerBros segments (4, 5, 6, 7); dpcPlus bank NumBanks() - 1; mnetwork
\* lowerSegment 6, RAM page 0, and bank 7 in the upper segment.  Initialise
\* gives that configuration from every reachable state.
StartConfiguration ==
    /\ attached = "parkerBros" =>
          /\ last.op \in {"load", "Initialise"} =>
                parkerBros.segment = [s \in 0..3 |-> 4 + s]
          /\ PBInitialise(parkerBros).segment = [s \in 0..3 |-> 4 + s]
          /\ PBGetBank(PBInitialise(parkerBros), 4095).Number = PBNumBanks - 1
    /\ attached = "dpcPlus" =>
          /\ last.op \in {"load", "Initialise"} => dpcPlus.bank = dpcPlus.numBanks - 1
          /\ DPCInitialise(dpcPlus).bank = dpcPlus.numBanks - 1
    /\ attached = "mnetwork" =>
          /\ last.op \in {"load", "Initialise"} =>
                /\ mnetwork.lowerSegment = 6
                /\ mnetwork.upperSegment = 0
                /\ MNgetBank(mnetwork, 4095) = MNnumBanks - 1
          /\ MNinitialise(mnetwork).lowerSegment = 6
          /\ MNinitialise(mnetwork).upperSegment = 0

StartConfigurationWitness ==
    /\ attached = "dpcPlus"
    /\ dpcPlus.numBanks = 2
    /\ ops = 2
    /\ last.op = "Initialise"
    /\ dpcPlus.bank = 1
    /\ dpcPlus.registers # DPCregisters0

\* a valid preferences file starts with the warning line; the lines of a
\* file; whether a file has an entry for a key
ValidPrefs(path) ==
    path.exists /\ path.lines # <<>> /\ Head(path.lines) = WarningBoilerPlate
PrefsLinesOf(path) == {path.lines[i] : i \in 1..Len(path.lines)}
PrefsHasKey(path, k) ==
    \E i \in 2..Len(path.lines) :
       Len(SplitN2(path.lines[i])) = 2 /\ SplitN2(path.lines[i])[1] = k

\* C27: over a valid preferences file HasEntry(key) returns true exactly
\* when the file has an entry for key.
HasEntryTellsPresence ==
    (last.op = "HasEntry" /\ ValidPrefs(prefsFile)) =>
       /\ last.err = "nil"
       /\ last.ret = PrefsHasKey(prefsFile, last.key)

\* C28: after a successful Save over a valid preferences file, every
\* key/value line that was in the file and whose key is not registered in the
\* Disk is still in the file, every registered key is in the file with its
\* live value, and the first line of the file is the warning.
SaveKeepsUnknownEntries ==
    (last.op = "Save" /\ last.err = "nil" /\ ValidPrefs(last.path)) =>
       /\ ValidPrefs(prefsFile)
       /\ \A i \in 2..Len(last.path.lines) :
             (/\ Len(SplitN2(last.path.lines[i])) = 2
              /\ SplitN2(last.path.lines[i])[1] \notin DOMAIN dsk.entries)
                => last.path.lines[i] \in PrefsLinesOf(prefsFile)
       /\ \A k \in DOMAIN dsk.entries :
             (k \o <<keySep>> \o dsk.entries[k]) \in PrefsLinesOf(prefsFile)

\* C29: after Load(saveOnFirstUse = true) over a valid or a missing
\* preferences file, every registered preference that had no entry in the
\* file is in the file with its current value.
LoadSavesDefaults ==
    (/\ last.op = "Load" /\ last.saveOnFirstUse
     /\ (~last.path.exists \/ ValidPrefs(last.path))) =>
       \A k \in DOMAIN dsk.entries :
          ~PrefsHasKey(last.path, k)
            => (k \o <<keySep>> \o dsk.entries[k]) \in PrefsLinesOf(prefsFile)

\* the pushed Goto events that have not finished
Unfinished == Len(events) + (IF running.pc = "idle" THEN 0 ELSE 1)

\* C30: the pushed Goto events that have not finished are never more than
\* the capacity of the rewinding channel; a call of PushRewind made while
\* that many are unfinished pushes nothing and returns true, a call that
\* pushes returns false; every event that finishes, with an error or
\* without, gives its slot back, so that the channel has room again whenever
\* fewer events than its capacity are unfinished.
RewindRequestsBounded ==
    /\ Unfinished <= RewindingCap
    /\ rewinding = Unfinished + (IF pushing.pc = "push" THEN 1 ELSE 0)
    /\ (pushing.pc = "idle" /\ Unfinished < RewindingCap) => rewinding < RewindingCap
    /\ last.op = "PushRewind" =>
          LET before == last.waiting + (IF last.busy = "idle" THEN 0 ELSE 1)
          IN  /\ last.ret = (before = RewindingCap)
              /\ last.ret => Unfinished <= before
              /\ (~last.ret /\ pushing.pc = "idle" /\ last.waiting = Len(events) - 1)
                    => events[Len(events)] = [fn |-> last.fn, last |-> last.last]

RewindRequestsBoundedWitness ==
    /\ last.op = "PushRewind" /\ ~last.ret
    /\ ops = 3
    /\ running.pc = "idle" /\ running.err = "error"
    /\ Len(events) = 1
    /\ rewinding = RewindingCap

\* C31: an active write that the mapper acts on returns no error: a
\* parkerBros write to a bank-switch hotspot 0xfe0..0xff7, and a dpcPlus write
\* that is not a poke to a write register 0x28..0x7f.
AcceptedWriteReportsNoError ==
    /\ (attached = "parkerBros" /\ last.op = "Write" /\ ~last.passive
          /\ last.addr \in 4064..4087) => last.err = "nil"
    /\ (attached = "dpcPlus" /\ last.op = "Write" /\ ~last.passive /\ ~last.poke
          /\ last.addr \in 40..127) => last.err = "nil"

\* C32: a write of the note index n to register 0x75, 0x76 or 0x77 sets the
\* frequency of music fetcher 0, 1 or 2 to the little-endian 32-bit value at
\* bytes 4n .. 4n+3 of the frequency table, for every n in 0..255.
NoteSelectsTableEntry ==
    (attached = "dpcPlus" /\ last.op = "Write" /\ last.addr \in 117..119) =>
       LET n == last.data
       IN  dpcPlus.registers.MusicFetcher[last.addr - 117].Freq
              = W32(DPCFreq(dpcPlus, 4 * n + 2) + DPCFreq(dpcPlus, 4 * n + 3) * 256,
                    DPCFreq(dpcPlus, 4 * n) + DPCFreq(dpcPlus, 4 * n + 1) * 256)

\* the index into the display data that music fetcher m reads
AmplitudeIndex(m) ==
    dpcPlus.registers.MusicFetcher[m].Waveform * 32
       + dpcPlus.registers.MusicFetcher[m].Count[1] \div 2048

\* C40: in every state each index (Waveform << 5) + (Count >> 27) of the
\* amplitude read is inside the 4096 bytes of display data, the waveform
\* being at most 127 and the counter giving 5 bits, and a read of register
\* 0x05 returns the sum of the three table bytes modulo 256.
AmplitudeInsideData ==
    attached = "dpcPlus" =>
       /\ \A m \in 0..2 :
             /\ dpcPlus.registers.MusicFetcher[m].Waveform \in 0..127
             /\ dpcPlus.registers.MusicFetcher[m].Count[1] \div 2048 \in 0..31
             /\ AmplitudeIndex(m) \in 0..(dataSize - 1)
       /\ DPCreadRegister(dpcPlus, 5)
             = Ret(dpcPlus,
                   (DPCData(dpcPlus, AmplitudeIndex(0)) + DPCData(dpcPlus, AmplitudeIndex(1))
                      + DPCData(dpcPlus, AmplitudeIndex(2))) % 256,
                   "nil")
       /\ (last.op = "Read" /\ last.addr = 5) =>
             /\ last.err = "nil"
             /\ last.ret = DPCreadRegister(dpcPlus, 5).data

AmplitudeInsideDataWitness ==
    /\ attached = "dpcPlus"
    /\ last.op = "Read" /\ last.addr = 5
    /\ steps >= 59
    /\ dpcPlus.registers.MusicFetcher[0].Waveform = 127
    /\ dpcPlus.registers.MusicFetcher[1].Count[1] \div 2048 > 0
    /\ DPCData(dpcPlus, AmplitudeIndex(0)) + DPCData(dpcPlus, AmplitudeIndex(1))
          + DPCData(dpcPlus, AmplitudeIndex(2)) > 255

\* C33: while the Goto call of a pushed function runs, and until the
\* function requests the paused state after it, the state requested of the
\* GUI is StateRewinding for PushRewind and StateGotoCoords for
\* PushGotoCoords; once the function has finished, with an error or without,
\* the state requested is StatePaused.
GuiToldInOrder ==
    /\ running.pc \in {"goto", "paused"} =>
          scr = IF IsGotoCoords(running) THEN StateGotoCoords ELSE StateRewinding
    /\ running.pc = "idle" => scr = StatePaused

GuiToldInOrderWitness ==
    /\ running.pc = "idle" /\ running.err = "error"
    /\ IsGotoCoords(running)
    /\ scr = StatePaused
    /\ events # <<>> /\ ~IsGotoCoords(Head(events))

(***************************************************************************)
(* The resizer over the signals of a television.                           *)
(***************************************************************************)
MaxExamines == 2
Scanlines == 0..6
HorizPositions == {0 - HorizClksHBlank, 0, HorizClksHBlank - 1, HorizClksHBlank,
                   HorizClksHBlank + 1}
Pixels == {0 - 1, 0, 1}
\* the safe area and the visible area the resizer was prepared with
SafeAreas == {[NewSafeTop |-> 1, NewSafeBottom |-> 5]}
VisibleAreas == {<<0, 6>>, <<2, 3>>, <<3, 4>>}

ResizeInit ==
    /\ Shelved
    /\ img = NewSdlImgui(0)
    /\ rsz \in {Resizer(v[1], v[2], spec) : v \in VisibleAreas, spec \in SafeAreas}
    /\ regression = NoRegression
    /\ dpcState = NoState

Examine ==
    /\ rsz.n < MaxExamines
    /\ \E syncedFrame, VBlank \in BOOLEAN, horizPos \in HorizPositions,
          scanline \in Scanlines, Pixel \in Pixels :
          LET on == [syncedFrame |-> syncedFrame, horizPos |-> horizPos,
                     scanline |-> scanline, VBlank |-> VBlank, Pixel |-> Pixel]
              sr == examine(rsz, on)
          IN  rsz' = [sr EXCEPT !.n = @ + 1, !.on = on,
                                !.was = [top |-> rsz.top, bottom |-> rsz.bottom]]
    /\ UNCHANGED <<shelved, img, regression, dpcState>>

ResizeNext == Examine

ResizeSpec == ResizeInit /\ [][ResizeNext]_vars

(***************************************************************************)
(* RegressRun and RegressRedux over a regression database.                 *)
(***************************************************************************)
MaxEntries == 3
EntryKinds == {"VideoRegression", "LogRegression", "other"}
Databases ==
    UNION {{[i \in 1..n |-> [key |-> i - 1, kind |-> kinds[i], rom |-> i]] :
               kinds \in [1..n -> EntryKinds]} : n \in 1..MaxEntries}
RegressErrs == {NilErr, <<"regression: video", regressionSkipped>>, <<"digest">>}

RegressInit ==
    /\ Shelved
    /\ img = NewSdlImgui(0)
    /\ rsz = NoResizer
    /\ regression \in {Database(entries) : entries \in Databases}
    /\ dpcState = NoState

Regression(new) ==
    /\ regression' = new
    /\ UNCHANGED <<shelved, img, rsz, dpcState>>

\* RegressRun up to the call of db.SelectKeys with no filter keys
RegressRun ==
    /\ regression.pc = "idle"
    /\ Regression([regression EXCEPT
                      !.fn = "RegressRun", !.pc = "each",
                      !.todo = [i \in 1..Len(regression.entries) |->
                                   regression.entries[i].key]])

\* db.SelectKeys calls onSelect for its next entry; late counts the
\* regressions started with quitEarly set
RunSelect ==
    /\ regression.fn = "RegressRun"
    /\ regression.pc = "each"
    /\ regression.todo # <<>>
    /\ regression.err = NilErr
    /\ \E ok, quit \in BOOLEAN, err \in RegressErrs :
          LET ent == CHOOSE e \in {regression.entries[i] : i \in 1..Len(regression.entries)} :
                        e.key = Head(regression.todo)
              new == onSelect(regression, ent, ok, err, quit)
          IN  Regression([new EXCEPT
                             !.todo = Tail(@),
                             !.late = @ + (IF regression.quitEarly /\ new.run > regression.run
                                           THEN 1 ELSE 0)])

\* db.SelectKeys returns, at its first error or after its last entry, and
\* RegressRun with it: the deferred functions write the summary and end
\* the session
RegressRunReturn ==
    /\ regression.fn = "RegressRun"
    /\ regression.pc = "each"
    /\ regression.todo = <<>> \/ regression.err # NilErr
    /\ Regression([regression EXCEPT
                      !.pc = "returned",
                      !.ret = RegressRunErr(regression.err),
                      !.summary = <<regression.numSucceed, regression.numFail,
                                    regression.numSkipped, regression.numError>>])

\* RegressRedux up to the call of db.ForEach, the user confirming twice
RegressRedux ==
    /\ regression.pc = "idle"
    /\ \E confirmed \in BOOLEAN :
          Regression([regression EXCEPT
                         !.fn = "RegressRedux",
                         !.pc = IF confirmed THEN "each" ELSE "returned",
                         !.todo = [i \in 1..Len(regression.entries) |->
                                      regression.entries[i].key]])

\* db.ForEach calls the function it was given for its next entry
ReduxEach ==
    /\ regression.fn = "RegressRedux"
    /\ regression.pc = "each"
    /\ regression.todo # <<>>
    /\ regression.err = NilErr
    /\ \E err \in RegressErrs :
          LET key == Head(regression.todo)
              reg == CHOOSE e \in {regression.entries[i] : i \in 1..Len(regression.entries)} :
                        e.key = key
          IN  Regression([reduxEach(regression, key, reg, err) EXCEPT !.todo = Tail(@)])

\* db.ForEach returns, at its first error or after its last entry, and
\* RegressRedux with it: the deferred db.EndSession(true) keeps the changes
RegressReduxReturn ==
    /\ regression.fn = "RegressRedux"
    /\ regression.pc = "each"
    /\ regression.todo = <<>> \/ regression.err # NilErr
    /\ Regression([regression EXCEPT !.pc = "returned", !.ret = regression.err])

RegressNext ==
    \/ RegressRun
    \/ RunSelect
    \/ RegressRunReturn
    \/ RegressRedux
    \/ ReduxEach
    \/ RegressReduxReturn

RegressSpec == RegressInit /\ [][RegressNext]_vars

(***************************************************************************)
(* A DPC+ State, its snapshot, and the mutations of both.                  *)
(***************************************************************************)
MaxStateOps == 4
StateFields == {"registers", "bank", "beats"}
StateValues == {0, 1}
ParameterValues == {1, 2}

StateInit ==
    /\ Shelved
    /\ img = NewSdlImgui(0)
    /\ rsz = NoResizer
    /\ regression = NoRegression
    /\ dpcState = NoState

\* the States that can be mutated
States == IF dpcState.taken THEN {"s", "n"} ELSE {"s"}

\* the State t is now st and the arrays heap
Mutated(t, st, heap) ==
    /\ dpcState.ops < MaxStateOps
    /\ dpcState' = [dpcState EXCEPT ![t] = st, !.heap = heap, !.ops = @ + 1,
                                    !.kept[t] = Holds(st, heap)]
    /\ UNCHANGED <<shelved, img, rsz, regression>>

StateSnapshot ==
    /\ ~dpcState.taken
    /\ dpcState' = [dpcState EXCEPT
                       !.n = Snapshot(dpcState.s), !.taken = TRUE,
                       !.kept = [s |-> Holds(dpcState.s, dpcState.heap),
                                 n |-> Holds(Snapshot(dpcState.s), dpcState.heap)]]
    /\ UNCHANGED <<shelved, img, rsz, regression>>

StateAssign ==
    \E t \in States :
       \/ \E f \in StateFields, v \in StateValues :
             Mutated(t, [dpcState[t] EXCEPT ![f] = v], dpcState.heap)
       \/ \E v \in BOOLEAN :
             Mutated(t, [dpcState[t] EXCEPT !.lda = v], dpcState.heap)

StateTruncate ==
    \E t \in States :
       Mutated(t, Truncated(dpcState[t]), dpcState.heap)

StateAppend ==
    \E t \in States, v \in ParameterValues :
       /\ dpcState[t].parameters.len < ParametersCap
       /\ Mutated(t, Appended(dpcState[t], v), AppendedTo(dpcState[t], dpcState.heap, v))

StateNext ==
    \/ StateSnapshot
    \/ StateAssign
    \/ StateTruncate
    \/ StateAppend

StateSpec == StateInit /\ [][StateNext]_vars

\* what is sent for a request to set a feature: nil if it succeeded, the
\* wrapped error if it failed, the wrapped UnsupportedGuiFeature if unknown
SetAnswer(call) ==
    IF call.request = ReqState THEN NilErr
    ELSE IF call.request = ReqSavePrefs
         THEN IF call.saved = NilErr THEN NilErr ELSE <<"sdlimgui">> \o call.saved
         ELSE <<"sdlimgui", UnsupportedGuiFeature>>

\* the channels a request is answered on, in order
AnswerChannels(call) ==
    IF call.kind = "GetFeature" THEN <<"featureGetData", "featureGetErr">>
    ELSE <<"featureSetErr">>

AnsweredOnce(call) ==
    LET on == [i \in 1..Len(call.answers) |-> call.answers[i].ch]
    IN  /\ Len(on) <= Len(AnswerChannels(call))
        /\ on = SubSeq(AnswerChannels(call), 1, Len(on))
        /\ call.serviced =>
              /\ on = AnswerChannels(call)
              /\ call.kind # "GetFeature" => call.answers[1].val = SetAnswer(call)

SetFeatureGetsOwnReply ==
    \A c \in 1..Len(img.calls) :
       (img.calls[c].kind = "SetFeature" /\ img.calls[c].pc = "done"
           /\ img.calls[c].alone) =>
          img.calls[c].got.id = c

\* C36: an examine call never moves top down the screen nor bottom up it, a
\* top it sets is not above the safe top nor a bottom it sets below the safe
\* bottom, and a call made while the frame is not synced, with VBLANK on,
\* with a zero pixel or at a horizontal position inside HBLANK changes
\* neither
ResizerGrowsInsideSafeArea ==
    rsz.n > 0 =>
       /\ rsz.top <= rsz.was.top
       /\ rsz.bottom >= rsz.was.bottom
       /\ rsz.top # rsz.was.top => rsz.top >= rsz.spec.NewSafeTop
       /\ rsz.bottom # rsz.was.bottom => rsz.bottom <= rsz.spec.NewSafeBottom
       /\ (~rsz.on.syncedFrame \/ rsz.on.VBlank \/ rsz.on.Pixel = 0
              \/ rsz.on.horizPos <= HorizClksHBlank) =>
             (rsz.top = rsz.was.top /\ rsz.bottom = rsz.was.bottom)

ResizerGrowsInsideSafeAreaWitness ==
    /\ rsz.n = MaxExamines
    /\ rsz.top = rsz.spec.NewSafeTop /\ rsz.top < rsz.was.top
    /\ rsz.bottom = rsz.spec.NewSafeBottom

ReduxLosesNoEntry ==
    (regression.fn = "RegressRedux" /\ regression.pc = "returned") =>
       \A i \in 1..Len(regression.before) :
          \E j \in 1..Len(regression.entries) :
             /\ regression.entries[j].kind = regression.before[i].kind
             /\ regression.entries[j].rom = regression.before[i].rom

\* C39: once n = s.Snapshot() was taken, a mutation of s changes nothing of
\* what n holds and a mutation of n nothing of what s holds
SnapshotIndependent ==
    dpcState.taken =>
       /\ Holds(dpcState.n, dpcState.heap) = dpcState.kept.n
       /\ Holds(dpcState.s, dpcState.heap) = dpcState.kept.s

====
